---- MODULE Spec2Model ----
(***************************************************************************)
(* Model of the hybrid document processor (src/main.py): the trigger       *)
(* endpoint POST /process, the background run process_document_background  *)
(* with its store writes through update_dynamodb, and the pure functions   *)
(* the run calls (format_ocr_text, extract_text_ocr, extract_invoice_fields,*)
(* check_qr_links, format_ocr_summary, clean_for_dynamodb).                *)
(*                                                                         *)
(* Python values are tagged records: None, str (short atoms, held as TLA+  *)
(* strings), str held as a sequence of one-character strings ("txt", for   *)
(* every string the code splits, searches or concatenates), int, float     *)
(* (held in tenths), Decimal (tenths), list, dict and datetime stamps.     *)
(***************************************************************************)
EXTENDS Integers, Sequences, FiniteSets, TLC

\* ---------------------------------------------------------------- bounds
MaxPages == 2         \* pages a rasterized pdf can have

\* Request i owns run slot i: two requests, so that one run can race another.
RunIds == {1, 2}

\* ---------------------------------------------------------------- values
NoneV == [t |-> "none"]
Str(s) == [t |-> "str", v |-> s]
Txt(cs) == [t |-> "txt", v |-> cs]
IntV(n) == [t |-> "int", v |-> n]
Flt(tenths) == [t |-> "float", v |-> tenths]
Dec(tenths) == [t |-> "decimal", v |-> tenths]
Lst(xs) == [t |-> "list", v |-> xs]
Dct(f) == [t |-> "dict", v |-> f]
Time(r, n) == [t |-> "time", v |-> <<r, n>>]

IsNone(x) == x.t = "none"

\* Python truthiness of the values a record field can hold (None, str).
Truthy(x) ==
  CASE x.t = "none" -> FALSE
    [] x.t = "str" -> x.v # ""
    [] x.t = "txt" -> x.v # <<>>
    [] x.t = "int" -> x.v # 0
    [] x.t = "dict" -> DOMAIN x.v # {}
    [] OTHER -> TRUE

\* ---------------------------------------------------------------- text
NL == "\n"
WhiteSpace == {" ", NL, "\t"}

UpperLetters ==
  <<"A","B","C","D","E","F","G","H","I","J","K","L","M",
    "N","O","P","Q","R","S","T","U","V","W","X","Y","Z">>
LowerLetters ==
  <<"a","b","c","d","e","f","g","h","i","j","k","l","m",
    "n","o","p","q","r","s","t","u","v","w","x","y","z">>
Digits == <<"0","1","2","3","4","5","6","7","8","9">>

SeqRange(s) == {s[i] : i \in 1..Len(s)}

ToUpper ==
  [c \in SeqRange(LowerLetters) |->
     UpperLetters[CHOOSE i \in 1..26 : LowerLetters[i] = c]]
ToLower ==
  [c \in SeqRange(UpperLetters) |->
     LowerLetters[CHOOSE i \in 1..26 : UpperLetters[i] = c]]
UpperChar(c) == IF c \in DOMAIN ToUpper THEN ToUpper[c] ELSE c
LowerChar(c) == IF c \in DOMAIN ToLower THEN ToLower[c] ELSE c

\* str.upper(), str.lower()
Upper(s) == [i \in 1..Len(s) |-> UpperChar(s[i])]
Lower(s) == [i \in 1..Len(s) |-> LowerChar(s[i])]

\* sub in s
StartsAt(s, sub, i) ==
  /\ i >= 1
  /\ i + Len(sub) - 1 <= Len(s)
  /\ \A j \in 1..Len(sub) : s[i + j - 1] = sub[j]
Contains(s, sub) ==
  \E t \in {s}, u \in {sub} : \E i \in 1..(Len(t) + 1) : StartsAt(t, u, i)

\* The element of a one-element set: Only({e(x) : x \in {a}}) is e(a) with a
\* evaluated once.
Only(S) == CHOOSE x \in S : TRUE

\* str.strip()
Strip(s) ==
  Only({IF \A i \in 1..Len(t) : t[i] \in WhiteSpace THEN <<>>
        ELSE LET a == CHOOSE i \in 1..Len(t) :
                        /\ t[i] \notin WhiteSpace
                        /\ \A j \in 1..(i - 1) : t[j] \in WhiteSpace
                 b == CHOOSE i \in 1..Len(t) :
                        /\ t[i] \notin WhiteSpace
                        /\ \A j \in (i + 1)..Len(t) : t[j] \in WhiteSpace
             IN SubSeq(t, a, b) : t \in {s}})

\* s.split(sep) for a one-character separator: always at least one piece.
RECURSIVE SplitOn(_, _)
SplitOn(s, sep) ==
  Only({IF \A i \in 1..Len(t) : t[i] # sep THEN <<t>>
        ELSE LET k == CHOOSE i \in 1..Len(t) :
                        /\ t[i] = sep
                        /\ \A j \in 1..(i - 1) : t[j] # sep
             IN <<SubSeq(t, 1, k - 1)>> \o SplitOn(SubSeq(t, k + 1, Len(t)), sep) :
        t \in {s}})

\* s.split(): the maximal runs of non-whitespace characters.
RECURSIVE Words(_)
Words(s) ==
  Only({IF t = <<>> THEN <<>>
        ELSE IF \A i \in 1..Len(t) : t[i] \notin WhiteSpace THEN <<t>>
        ELSE LET k == CHOOSE i \in 1..Len(t) :
                        /\ t[i] \in WhiteSpace
                        /\ \A j \in 1..(i - 1) : t[j] \notin WhiteSpace
             IN <<SubSeq(t, 1, k - 1)>> \o Words(SubSeq(t, k + 1, Len(t))) :
        t \in {Strip(s)}})

\* sep.join(parts)
RECURSIVE Join(_, _)
Join(parts, sep) ==
  Only({IF ps = <<>> THEN <<>>
        ELSE IF Len(ps) = 1 THEN ps[1]
        ELSE ps[1] \o sep \o Join(Tail(ps), sep) : ps \in {parts}})

\* str(n) for the small non-negative integers the model prints.
RECURSIVE IntToStr(_)
IntToStr(n) ==
  IF n < 10 THEN <<Digits[n + 1]>>
  ELSE IntToStr(n \div 10) \o <<Digits[(n % 10) + 1]>>

RECURSIVE SumSeq(_)
SumSeq(s) == IF s = <<>> THEN 0 ELSE Head(s) + SumSeq(Tail(s))


\* ------------------------------------------------------- format_ocr_text
Keywords ==
  << <<"I","N","V","O","I","C","E">>, <<"T","O","T","A","L">>,
     <<"D","A","T","E">>, <<"A","M","O","U","N","T">> >>

ShortLineLimit == 50

\* One line of format_ocr_text's loop: whitespace collapsed, and a line that
\* names a keyword is upper-cased when it is shorter than 50 characters.
FormatLine(line) ==
  LET cleaned == Join(Words(line), <<" ">>) IN
  IF /\ \E k \in 1..Len(Keywords) : Contains(Upper(cleaned), Keywords[k])
     /\ Len(cleaned) < ShortLineLimit
  THEN Upper(cleaned)
  ELSE cleaned

RECURSIVE FormatLines(_)
FormatLines(lines) ==
  Only({IF ls = <<>> THEN <<>>
        ELSE Only({(IF c # <<>> THEN <<c>> ELSE <<>>) \o FormatLines(Tail(ls)) :
                   c \in {FormatLine(Head(ls))}}) : ls \in {lines}})

format_ocr_text(raw_text) ==
  IF Strip(raw_text) = <<>> THEN raw_text
  ELSE Strip(Join(FormatLines(SplitOn(raw_text, NL)), <<NL>>))

\* ------------------------------------------------------ extract_text_ocr
\* round(a / n) to the nearest integer, and round(sum / n, 1) in tenths.
RoundDiv(a, n) == (2 * a + n) \div (2 * n)
RoundTenths(sum, n) == RoundDiv(10 * sum, n)

\* The reading of one page. `string` is what image_to_string returned;
\* image_to_data raised (data_ok false) or returned the tokens' confidences
\* `data`, -1 standing for the '-1' of a non-token row.
extract_text_ocr(string, data_ok, data, page_num) ==
  LET raw_text == Strip(string)
      formatted_text == format_ocr_text(raw_text)
      confidences ==
        IF ~data_ok THEN <<>>
        ELSE SelectSeq(data, LAMBDA c : c # -1)
      avg_conf ==
        IF confidences = <<>> THEN 0
        ELSE RoundTenths(SumSeq(confidences), Len(confidences))
  IN [page |-> page_num,
      text |-> formatted_text,
      confidence |-> avg_conf,
      raw_text |-> raw_text,
      word_count |-> Len(Words(formatted_text)),
      line_count |->
        Len(SelectSeq(SplitOn(formatted_text, NL),
                      LAMBDA l : Strip(l) # <<>>))]

\* ------------------------------------------------ extract_invoice_fields
NotFound == <<"N","o","t"," ","f","o","u","n","d">>

InvoiceLabel == <<"I","N","V","O","I","C","E"," ","N","O">>

\* [:\s] and [A-Z0-9/]
LabelSepChars == {":"} \cup WhiteSpace
InvoiceChars == SeqRange(UpperLetters) \cup SeqRange(Digits) \cup {"/"}

\* The last index of the maximal run of characters in the class that starts
\* at `from` (from - 1 when there is none): a greedy +/* of the pattern.
RECURSIVE RunEnd(_, _, _)
RunEnd(text, from, class) ==
  IF from <= Len(text) /\ text[from] \in class
  THEN RunEnd(text, from + 1, class)
  ELSE from - 1

\* r'INVOICE NO[:\s]+([A-Z0-9/]+)' matched at position i.
InvoiceMatchAt(text, i) ==
  /\ StartsAt(text, InvoiceLabel, i)
  /\ LET s == i + Len(InvoiceLabel)
         e == RunEnd(text, s, LabelSepChars)
     IN /\ e >= s
        /\ RunEnd(text, e + 1, InvoiceChars) >= e + 1

\* find(r'INVOICE NO[:\s]+([A-Z0-9/]+)'): the first match's group, stripped.
FindInvoiceNumber(text) ==
  IF \E i \in 1..Len(text) : InvoiceMatchAt(text, i)
  THEN Only({Strip(SubSeq(text, e + 1, RunEnd(text, e + 1, InvoiceChars))) :
               e \in {RunEnd(text, i + Len(InvoiceLabel), LabelSepChars) :
                        i \in {CHOOSE k \in 1..Len(text) :
                                 /\ InvoiceMatchAt(text, k)
                                 /\ \A j \in 1..(k - 1) :
                                      ~InvoiceMatchAt(text, j)}}})
  ELSE NotFound

KSh == <<"K","S","h">>
KES == <<"K","E","S">>

\* text.splitlines(): the lines between "\n", without a last empty piece.
SplitLines(text) ==
  Only({IF pieces[Len(pieces)] = <<>> THEN SubSeq(pieces, 1, Len(pieces) - 1)
        ELSE pieces : pieces \in {SplitOn(text, NL)}})

\* line.split(':', 1)[1].strip() if ':' in line else ''
AfterColon(line) ==
  IF \A i \in 1..Len(line) : line[i] # ":" THEN <<>>
  ELSE LET k == CHOOSE i \in 1..Len(line) :
                  /\ line[i] = ":"
                  /\ \A j \in 1..(i - 1) : line[j] # ":"
       IN Strip(SubSeq(line, k + 1, Len(line)))

\* Lines 145-147 on the stripped line: blank, ^[- ]+$ or .+:$
StopsValue(stripped) ==
  \/ stripped = <<>>
  \/ \A i \in 1..Len(stripped) : stripped[i] \in {"-", " "}
  \/ Len(stripped) >= 2 /\ stripped[Len(stripped)] = ":"

MaxLines == 5

\* Lines 136-151: the loop of find_multiline from line idx on.
RECURSIVE MultilineLoop(_, _, _, _, _)
MultilineLoop(lines, idx, label, found, values) ==
  Only({IF idx > Len(ls) THEN vs
        ELSE IF ~found
        THEN IF StartsAt(Strip(ls[idx]), label, 1)
             THEN MultilineLoop(ls, idx + 1, label, TRUE,
                                Append(vs, AfterColon(ls[idx])))
             ELSE MultilineLoop(ls, idx + 1, label, FALSE, vs)
        ELSE IF StopsValue(Strip(ls[idx])) THEN vs
        ELSE IF Len(vs) + 1 >= MaxLines THEN Append(vs, Strip(ls[idx]))
        ELSE MultilineLoop(ls, idx + 1, label, TRUE,
                           Append(vs, Strip(ls[idx]))) :
        ls \in {lines}, vs \in {values}})

\* ''.join(values).replace(' ', '').replace('\n', '')
Squeeze(s) == SelectSeq(s, LAMBDA c : c \notin {" ", NL})

find_multiline(label, text) ==
  Only({IF values # <<>> THEN Squeeze(Join(values, <<>>)) ELSE NotFound :
          values \in {MultilineLoop(SplitLines(text), 1, label, FALSE, <<>>)}})

InternalData == <<"I","n","t","e","r","n","a","l"," ","D","a","t","a">>
ReceiptSignature ==
  <<"R","e","c","e","i","p","t"," ","S","i","g","n","a","t","u","r","e">>
ScuId == <<"S","C","U"," ","I","D">>
CuInvoiceNo == <<"C","U"," ","I","N","V","O","I","C","E"," ","N","O",".">>

\* The fields of the mapping that the run reads, the substring test and the
\* four find_multiline fields; every other key is filled by find or by the
\* same search-and-strip on a pattern of its own.
extract_invoice_fields(text) ==
  Only({("Invoice Number" :> FindInvoiceNumber(t))
        @@ ("Currency" :>
              IF Contains(t, KSh) \/ Contains(t, KES) THEN KES ELSE NotFound)
        @@ ("Internal Data" :> find_multiline(InternalData, t))
        @@ ("Receipt Signature" :> find_multiline(ReceiptSignature, t))
        @@ ("SCU ID" :> find_multiline(ScuId, t))
        @@ ("CU INVOICE NO." :> find_multiline(CuInvoiceNo, t)) :
        t \in {text}})

\* -------------------------------------------------------- check_qr_links
\* BeautifulSoup(html).get_text(" ", strip=True): the document is a list of
\* nodes, a tag or a text; the stripped, non-empty texts joined by " ".
GetText(html) ==
  LET texts == SelectSeq(html, LAMBDA n : n.kind = "text" /\ Strip(n.s) # <<>>)
  IN Join([i \in 1..Len(texts) |-> Strip(texts[i].s)], <<" ">>)

ErrorInfix == <<" ","-"," ","E","r","r","o","r",":"," ">>

\* One iteration of the loop, for `link` and what requests.get gives for it:
\* [kind |-> "raise", msg] or [kind |-> "ok", html].
\* (LinkIter_DropsFailed: the iteration without line 228, a failed fetch
\* entering neither list.)
LinkIter_DropsFailed(acc, link, got, expected_invoice) ==
  IF got.kind = "raise"
  THEN [acc EXCEPT !.gets = Append(@, link)]
  ELSE IF expected_invoice # <<>>
          /\ Contains(Lower(GetText(got.html)), expected_invoice)
  THEN [acc EXCEPT !.valid = Append(@, link), !.gets = Append(@, link)]
  ELSE [acc EXCEPT !.invalid = Append(@, link), !.gets = Append(@, link)]

\* (LinkIter_CaseSensitive: the iteration without the .lower() of line 222.)
LinkIter_CaseSensitive(acc, link, got, expected_invoice) ==
  IF got.kind = "raise"
  THEN [acc EXCEPT !.invalid = Append(@, link \o ErrorInfix \o got.msg),
                   !.gets = Append(@, link)]
  ELSE IF expected_invoice # <<>>
          /\ Contains(GetText(got.html), expected_invoice)
  THEN [acc EXCEPT !.valid = Append(@, link), !.gets = Append(@, link)]
  ELSE [acc EXCEPT !.invalid = Append(@, link), !.gets = Append(@, link)]

LinkIter(acc, link, got, expected_invoice) ==
  IF got.kind = "raise"
  THEN [acc EXCEPT !.invalid = Append(@, link \o ErrorInfix \o got.msg),
                   !.gets = Append(@, link)]
  ELSE IF expected_invoice # <<>>
          /\ Contains(Lower(GetText(got.html)), expected_invoice)
  THEN [acc EXCEPT !.valid = Append(@, link), !.gets = Append(@, link)]
  ELSE [acc EXCEPT !.invalid = Append(@, link), !.gets = Append(@, link)]

RECURSIVE LinkLoop(_, _, _, _, _)
LinkLoop(qr_links, expected_invoice, fetched, i, acc) ==
  Only({IF i > Len(qr_links) THEN a
        ELSE LinkLoop(qr_links, expected_invoice, fetched, i + 1,
                      LinkIter(a, qr_links[i], fetched[i], expected_invoice)) :
        a \in {acc}})

\* valid and invalid are the two lists returned; gets is the list of the
\* requests.get calls made, in order.
check_qr_links(qr_links, invoice_fields, fetched) ==
  LET expected_invoice ==
        Lower(IF "Invoice Number" \in DOMAIN invoice_fields
              THEN invoice_fields["Invoice Number"] ELSE <<>>)
  IN LinkLoop(qr_links, expected_invoice, fetched, 1,
              [valid |-> <<>>, invalid |-> <<>>, gets |-> <<>>])


\* ---------------------------------------------------- format_ocr_summary
SnippetLimit == 100
Ellipsis == <<".", ".", ".">>
PagePrefix == <<"P","a","g","e"," ">>

\* max(ocr_results, key=confidence) and min(...): the first of the best.
BestPage(ocr_results) ==
  ocr_results[CHOOSE i \in 1..Len(ocr_results) :
    /\ \A j \in 1..Len(ocr_results) :
         ocr_results[j].confidence <= ocr_results[i].confidence
    /\ \A j \in 1..(i - 1) :
         ocr_results[j].confidence < ocr_results[i].confidence]
WorstPage(ocr_results) ==
  ocr_results[CHOOSE i \in 1..Len(ocr_results) :
    /\ \A j \in 1..Len(ocr_results) :
         ocr_results[j].confidence >= ocr_results[i].confidence
    /\ \A j \in 1..(i - 1) :
         ocr_results[j].confidence > ocr_results[i].confidence]

TextPreview(o) ==
  Txt(PagePrefix \o IntToStr(o.page) \o <<":", " ">> \o
      (IF Len(o.text) > SnippetLimit
       THEN SubSeq(o.text, 1, SnippetLimit) \o Ellipsis
       ELSE o.text))

format_ocr_summary(ocr_results) ==
  IF ocr_results = <<>>
  THEN Dct([summary |-> Str("No OCR data available")])
  ELSE
    LET n == Len(ocr_results)
        sum == SumSeq([i \in 1..n |-> ocr_results[i].confidence])
        best == BestPage(ocr_results)
        worst == WorstPage(ocr_results)
    IN Dct([pages_processed |-> IntV(n),
            average_confidence |-> Flt(RoundDiv(sum, n)),
            total_words_extracted |->
              IntV(SumSeq([i \in 1..n |-> ocr_results[i].word_count])),
            total_lines_extracted |->
              IntV(SumSeq([i \in 1..n |-> ocr_results[i].line_count])),
            best_quality_page |->
              Dct([page |-> IntV(best.page), confidence |-> Flt(best.confidence)]),
            worst_quality_page |->
              Dct([page |-> IntV(worst.page), confidence |-> Flt(worst.confidence)]),
            text_preview |-> Lst([i \in 1..n |-> TextPreview(ocr_results[i])]),
            quality_assessment |->
              Str(IF sum >= 900 * n THEN "Excellent"
                  ELSE IF sum >= 750 * n THEN "Good"
                  ELSE IF sum >= 600 * n THEN "Fair"
                  ELSE "Poor")])

\* ------------------------------ convert_float_to_decimal, clean_for_dynamodb
RECURSIVE convert_float_to_decimal(_)
convert_float_to_decimal(obj) ==
  CASE obj.t = "none" -> obj
    [] obj.t = "list" ->
         Lst([i \in 1..Len(obj.v) |-> convert_float_to_decimal(obj.v[i])])
    [] obj.t = "dict" ->
         Dct([k \in DOMAIN obj.v |-> convert_float_to_decimal(obj.v[k])])
    [] obj.t = "float" -> Dec(obj.v)
    [] OTHER -> obj

\* isinstance(obj, str) and obj.strip() == ""
IsBlankStr(obj) ==
  \/ obj.t = "str" /\ obj.v = ""
  \/ obj.t = "txt" /\ Strip(obj.v) = <<>>

RECURSIVE clean_for_dynamodb(_)
clean_for_dynamodb(obj) ==
  CASE obj.t = "none" -> NoneV
    [] obj.t = "list" ->
         LET kept == SelectSeq(obj.v, LAMBDA i : ~IsNone(i))
         IN Lst([i \in 1..Len(kept) |-> clean_for_dynamodb(kept[i])])
    [] obj.t = "dict" ->
         Dct([k \in {x \in DOMAIN obj.v : ~IsNone(obj.v[x])} |->
                clean_for_dynamodb(obj.v[k])])
    [] obj.t = "float" -> Dec(obj.v)
    [] IsBlankStr(obj) -> NoneV
    [] OTHER -> obj


\* ---------------------------------------------------------------- inputs
\* Sample strings, written out as the characters the code works on.
RawInvoice == <<" ","I","n","v","o","i","c","e"," "," ","N","o",":"," ","A","1">>
RawTotal == <<"t","o","t","a","l"," ","5",NL,NL,"K","S","h"," ","9">>
RawLabel == <<"S","C","U"," ","I","D",":">>
RawSigned == <<"S","C","U"," ","I","D",":"," ","K"," ","7",NL,"Q","2",NL,"-","-">>
ShortPayload == <<"u","1">>
LongPayload == <<"h","t","t","p",":","/","/","k","r","a","/","q">>

Position == [x |-> 0, y |-> 0, width |-> 1, height |-> 1]

\* What the libraries give for one page image: whether Image.open
\* succeeds, the payloads pyzbar decodes, whether image_to_string returns and
\* its text, whether image_to_data returns and its confidences.
PageOutcomes ==
  { [open |-> TRUE, codes |-> <<LongPayload>>,
     string_ok |-> TRUE, string |-> RawInvoice,
     data_ok |-> TRUE, data |-> <<-1, 90, 81>>],
    [open |-> TRUE, codes |-> <<>>,
     string_ok |-> TRUE, string |-> RawTotal,
     data_ok |-> FALSE, data |-> <<>>],
    [open |-> TRUE, codes |-> <<ShortPayload>>,
     string_ok |-> TRUE, string |-> <<>>,
     data_ok |-> TRUE, data |-> <<>>],
    [open |-> TRUE, codes |-> <<>>,
     string_ok |-> TRUE, string |-> RawLabel,
     data_ok |-> TRUE, data |-> <<60>>],
    [open |-> TRUE, codes |-> <<>>,
     string_ok |-> TRUE, string |-> RawSigned,
     data_ok |-> TRUE, data |-> <<60>>],
    [open |-> TRUE, codes |-> <<>>,
     string_ok |-> FALSE, string |-> <<>>,
     data_ok |-> TRUE, data |-> <<>>],
    [open |-> FALSE, codes |-> <<>>,
     string_ok |-> TRUE, string |-> <<>>,
     data_ok |-> TRUE, data |-> <<>>] }

\* What requests.get gives for one link: it raises (msg), or it returns a
\* response whose text is the document html.
PageHit ==
  << [kind |-> "tag", s |-> <<"<","p",">">>],
     [kind |-> "text", s |-> <<" ","N","o"," ","A","1"," ">>],
     [kind |-> "tag", s |-> <<"<","/","p",">">>] >>
PageMiss ==
  << [kind |-> "text", s |-> <<"4","0","4">>],
     [kind |-> "text", s |-> <<" ">>],
     [kind |-> "text", s |-> <<"N","o","t"," ","F","o","u","n","d">>] >>
FetchOutcomes ==
  { [kind |-> "raise", msg |-> <<"t","i","m","e","o","u","t">>, html |-> <<>>],
    [kind |-> "ok", msg |-> <<>>, html |-> PageHit],
    [kind |-> "ok", msg |-> <<>>, html |-> PageMiss] }

\* Request bodies: the "record" object of POST /process.
NewBody(fileId, uploadedBy, fileType, s3Key, status) ==
  [fileId |-> Str(fileId), uploadedBy |-> Str(uploadedBy),
   fileName |-> Str("a.pdf"), fileType |-> Str(fileType),
   s3Key |-> Str(s3Key), status |-> Str(status)]
LegacyBody(status) ==
  [document_id |-> Str("f1"), bucket |-> Str("b"), key |-> Str("k"),
   file_type |-> Str("pdf"), status |-> Str(status)]

Bodies ==
  { NewBody("f1", "u1", "pdf", "k", "pending"),
    NewBody("f1", "u1", "image", "k", "pending"),
    NewBody("f2", "", "docx", "k", "pending"),
    NewBody("f2", "u1", "", "k", "pending"),
    NewBody("f1", "u1", "pdf", "", "pending"),
    NewBody("f1", "u1", "pdf", "k", "completed"),
    LegacyBody("pending"),
    LegacyBody("completed") }

FileIds == {"f1", "f2"}
Uploaders == {"u1", "system"}
Keys == FileIds \X Uploaders

\* -------------------------------------------------------- DynamoDBRecord
RequiredFields ==
  {"fileId", "uploadedBy", "fileName", "fileType", "s3Key", "status"}
OptionalFields ==
  {"fileSize", "s3Url", "uploadDate", "metadata", "document_id", "bucket", "key"}

\* pydantic's validation of the body against the model
ValidRecord(body) == RequiredFields \subseteq DOMAIN body

\* The parsed model: an absent optional field is None, an extra key is dropped.
DynamoDBRecord(body) ==
  [k \in RequiredFields \cup OptionalFields |->
     IF k \in DOMAIN body THEN body[k] ELSE NoneV]

\* ---------------------------------------------------------------- state
VARIABLES
  requests,   \* the trigger requests handled so far, each with its answer
  run,        \* run[i]: the background task of request i
  store,      \* the table: key -> item (a mapping of attributes; absent = <<>>)
  writes,     \* writes[i]: the update_dynamodb calls run i has made
  lookup,     \* the last status lookup and its answer
  handler     \* the invocation of lambda_handler: its event and its locals

vars == <<requests, run, store, writes, lookup, handler>>

NoItem == <<>>

IdleRun ==
  [pc |-> "idle", record |-> NoneV,
   fileId |-> NoneV, uploadedBy |-> NoneV, s3_key |-> NoneV,
   bucket |-> NoneV, file_type |-> NoneV,
   tmpdir |-> "none", image_paths |-> <<>>, i |-> 0,
   qr_codes |-> <<>>, ocr_results |-> <<>>, all_text |-> <<>>,
   invoice_fields |-> <<>>, valid_links |-> <<>>, invalid_links |-> <<>>,
   gets |-> <<>>, fetched |-> <<>>, score |-> 0, processed_date |-> NoneV,
   err |-> "", utcnow |-> 0, did |-> {}, unread |-> {}]

\* A table that already holds the item of an uploaded file.
NoLookup == [fileId |-> "", uploadedBy |-> NoneV, code |-> 0, json |-> NoneV]

\* The table before any request: the item of the upload f1/u1.
InitialStore ==
  [k \in Keys |->
     IF k = <<"f1", "u1">>
     THEN [fileId |-> Str("f1"), uploadedBy |-> Str("u1"),
           status |-> Str("pending"), fileName |-> Str("a.pdf")]
     ELSE NoItem]

IdleHandler ==
  [pc |-> "idle", event |-> <<>>, url |-> NoneV, i |-> 0,
   processed_count |-> 0, errors |-> <<>>, calls |-> <<>>, result |-> NoneV]

Init ==
  /\ requests = <<>>
  /\ run = [i \in RunIds |-> IdleRun]
  /\ store = InitialStore
  /\ writes = [i \in RunIds |-> <<>>]
  /\ lookup = NoLookup
  /\ handler = IdleHandler


\* (update_item_Replace: a put of the key and the named attributes in place
\* of the SET expression.)
update_item_Replace(item, fileId, uploadedBy, values) ==
  [k \in {"fileId", "uploadedBy"} \cup DOMAIN values |->
     IF k \in DOMAIN values THEN values[k]
     ELSE IF k = "fileId" THEN Str(fileId) ELSE Str(uploadedBy)]

\* ------------------------------------------------------- update_dynamodb
\* The item after table.update_item(Key, "SET k = :k, ..."): the attributes
\* named are replaced, the others kept, and a missing item is created with
\* its key attributes.
update_item(item, fileId, uploadedBy, values) ==
  LET keyed == [k \in {"fileId", "uploadedBy"} |->
                  IF k = "fileId" THEN Str(fileId) ELSE Str(uploadedBy)]
      names == DOMAIN item \cup DOMAIN keyed \cup DOMAIN values
  IN [k \in names |->
        IF k \in DOMAIN values THEN values[k]
        ELSE IF k \in DOMAIN item THEN item[k]
        ELSE keyed[k]]

\* The values update_dynamodb hands to update_item: the updates and the
\* last_updated stamp, floats converted.
UpdateValues(updates, stamp) ==
  [k \in DOMAIN updates \cup {"last_updated"} |->
     IF k = "last_updated" THEN stamp
     ELSE convert_float_to_decimal(updates[k])]

\* (update_dynamodb_ByFileId: the update applied to every item of the file,
\* whoever uploaded it.)
update_dynamodb_ByFileId(table, fileId, uploadedBy, updates, stamp) ==
  Only({[k \in DOMAIN table |->
           IF k[1] = fileId /\ (k[2] = uploadedBy \/ table[k] # <<>>)
           THEN update_item(table[k], k[1], k[2], values)
           ELSE table[k]] :
          values \in {UpdateValues(updates, stamp)}})

\* The table after update_dynamodb(fileId, uploadedBy, updates) went through.
update_dynamodb(table, fileId, uploadedBy, updates, stamp) ==
  Only({[table EXCEPT ![<<fileId, uploadedBy>>] =
           update_item(@, fileId, uploadedBy, values)] :
          values \in {UpdateValues(updates, stamp)}})

\* What a call leaves in the record of the calls of run r: its kind, the
\* status and step it names, the values it handed to update_item, and whether
\* the table took it.
WriteEntry(r, kind, updates, ok) ==
  Only({[kind |-> kind,
         values |-> values,
         status |-> IF "status" \in DOMAIN updates THEN updates["status"].v ELSE "",
         step |-> IF "current_step" \in DOMAIN updates
                  THEN updates["current_step"].v ELSE "",
         ok |-> ok] :
        values \in {UpdateValues(updates, Time(r, run[r].utcnow + 1))}})


\* ------------------------------------------------------------ POST /process
\* process_document on a request body: FastAPI answers 422 when the body does
\* not validate against ProcessingRequest (the handler is not entered), the
\* handler answers 400 unless record.status is "pending", and otherwise adds
\* the background task and answers 200 with the file id; json is the body of
\* the answer.
\* (process_document_AnyStatus: the handler without the status test of
\* lines 542-543.)
process_document_AnyStatus(body) ==
  IF ~ValidRecord(body)
  THEN [code |-> 422, task |-> FALSE, fileId |-> NoneV,
        json |-> Dct([detail |-> Str("validation error")])]
  ELSE [code |-> 200, task |-> TRUE, fileId |-> DynamoDBRecord(body).fileId,
        json |-> Dct([message |-> Str("Processing started"),
                      fileId |-> DynamoDBRecord(body).fileId,
                      document_id |-> DynamoDBRecord(body).fileId])]

process_document(body) ==
  IF ~ValidRecord(body)
  THEN [code |-> 422, task |-> FALSE, fileId |-> NoneV,
        json |-> Dct([detail |-> Str("validation error")])]
  ELSE LET record == DynamoDBRecord(body)
           file_id == IF Truthy(record.fileId) THEN record.fileId
                      ELSE record.document_id
       IN
       IF record.status.v # "pending"
       THEN [code |-> 400, task |-> FALSE, fileId |-> NoneV,
             json |-> Dct([detail |-> Str("Document status must be 'pending'")])]
       ELSE [code |-> 200, task |-> TRUE, fileId |-> file_id,
             json |-> Dct([message |-> Str("Processing started"),
                           fileId |-> file_id, document_id |-> file_id])]

\* (Schedule_Cancels: a new task taking the place of the tasks in flight.)
Schedule_Cancels(i, body) ==
  LET answer == process_document(body)
  IN /\ requests' = Append(requests,
                      [body |-> body, code |-> answer.code,
                       fileId |-> answer.fileId, json |-> answer.json])
     /\ run' = IF answer.task /\ i \in DOMAIN run
               THEN [j \in DOMAIN run |->
                       IF j = i
                       THEN [IdleRun EXCEPT !.pc = "start",
                                            !.record = DynamoDBRecord(body)]
                       ELSE IF run[j].pc \in {"idle", "done", "raised"}
                       THEN run[j]
                       ELSE [run[j] EXCEPT !.pc = "raised"]]
               ELSE run

\* What the endpoint does with one request: the answer is logged and, when
\* the handler added the task, the run is there to start.
Schedule(i, body) ==
  LET answer == process_document(body)
  IN /\ requests' = Append(requests,
                      [body |-> body, code |-> answer.code,
                       fileId |-> answer.fileId, json |-> answer.json])
     /\ run' = IF answer.task /\ i \in DOMAIN run
               THEN [run EXCEPT ![i] = [IdleRun EXCEPT
                       !.pc = "start", !.record = DynamoDBRecord(body)]]
               ELSE run

Process(i, body) ==
  /\ i = Len(requests) + 1
  /\ Schedule(i, body)
  /\ UNCHANGED <<store, writes, lookup, handler>>

\* ---------------------------------------------- process_document_background
\* (Raise_KeepsDir: the exception caught with the temporary directory left
\* in place.)
Raise_KeepsDir(r, msg) ==
  [run[r] EXCEPT !.pc = "except", !.err = msg]

\* The exception leaves the with block (the temporary directory, if one was
\* acquired, is removed) and is caught by the except clause.
Raise(r, msg) ==
  [run[r] EXCEPT !.pc = "except", !.err = msg,
                 !.tmpdir = IF @ = "open" THEN "released" ELSE @]

\* The task ended: its locals are gone; what it did is kept for the record.
Ended(rn, pc) ==
  [IdleRun EXCEPT !.pc = pc, !.record = rn.record, !.fileId = rn.fileId,
                  !.uploadedBy = rn.uploadedBy, !.file_type = rn.file_type,
                  !.tmpdir = IF rn.tmpdir = "open" THEN "released" ELSE rn.tmpdir,
                  !.err = rn.err, !.utcnow = rn.utcnow, !.did = rn.did,
                  !.unread = rn.unread]

\* A key update_item can take: two non-empty strings.
KeyOK(fileId, uploadedBy) ==
  /\ fileId.t = "str" /\ fileId.v \in FileIds
  /\ uploadedBy.t = "str" /\ uploadedBy.v \in Uploaders

\* One update_dynamodb call of run r, which the table accepts (ok) or
\* rejects; a rejection is logged and raised again.
Written(r, fileId, uploadedBy, updates, ok) ==
  IF ok
  THEN update_dynamodb(store, fileId.v, uploadedBy.v, updates,
                       Time(r, run[r].utcnow + 1))
  ELSE store

StoreError == "update_item failed"

\* Lines 430-436: the identifiers, then the "downloading" snapshot.
Start(r, ok) ==
  /\ run[r].pc = "start"
  /\ LET record == run[r].record
         fileId == IF Truthy(record.fileId) THEN record.fileId
                   ELSE record.document_id
         uploadedBy == IF Truthy(record.uploadedBy) THEN record.uploadedBy
                       ELSE Str("system")
         s3_key == IF Truthy(record.s3Key) THEN record.s3Key ELSE record.key
         bucket == IF Truthy(record.bucket) THEN record.bucket
                   ELSE Str("default-bucket")
         bound == [run[r] EXCEPT !.fileId = fileId, !.uploadedBy = uploadedBy,
                                 !.s3_key = s3_key, !.bucket = bucket]
         updates == [status |-> Str("processing"),
                     current_step |-> Str("downloading")]
     IN IF ~Truthy(record.fileType)
        THEN \* record.file_type: the model has no such attribute
             /\ ok
             /\ run' = [run EXCEPT ![r] =
                          [bound EXCEPT !.pc = "except",
                                        !.err = "AttributeError: file_type"]]
             /\ UNCHANGED <<store, writes>>
        ELSE /\ ok => KeyOK(fileId, uploadedBy)
             /\ store' = Written(r, fileId, uploadedBy, updates, ok)
             /\ writes' = [writes EXCEPT ![r] =
                             Append(@, WriteEntry(r, "progress", updates, ok))]
             /\ run' = [run EXCEPT ![r] =
                          [bound EXCEPT !.file_type = record.fileType,
                                        !.utcnow = @ + 1,
                                        !.pc = IF ok THEN "download" ELSE "except",
                                        !.err = IF ok THEN "" ELSE StoreError]]
  /\ UNCHANGED <<requests, lookup, handler>>

\* Lines 438-440: the temporary directory and the download.
Download(r, ok) ==
  /\ run[r].pc = "download"
  /\ LET entered == [run[r] EXCEPT !.tmpdir = "open"] IN
     run' = [run EXCEPT ![r] =
       IF IsNone(run[r].s3_key)
       THEN \* os.path.basename(None)
            [entered EXCEPT !.pc = "except", !.tmpdir = "released",
                            !.err = "TypeError: basename"]
       ELSE IF ok
       THEN [entered EXCEPT !.pc = "rasterize", !.did = @ \cup {"download"}]
       ELSE [entered EXCEPT !.pc = "except", !.tmpdir = "released",
                            !.did = @ \cup {"download"},
                            !.err = "download_file failed"]]
  /\ IsNone(run[r].s3_key) => ok
  /\ UNCHANGED <<requests, store, writes, lookup, handler>>

\* convert_pdf_to_images: page_1.png .. page_n.png, in page order.
convert_pdf_to_images(n) == [i \in 1..n |-> i]

\* (Rasterize_AnyType: the dispatch with every type other than pdf taken as
\* an image, lines 446-447 left out.)
Rasterize_AnyType(r, ok, n) ==
  /\ run[r].pc = "rasterize"
  /\ run' = [run EXCEPT ![r] =
       IF run[r].file_type.v = "pdf"
       THEN IF ok
            THEN [@ EXCEPT !.pc = "pages", !.did = @ \cup {"rasterize"},
                           !.image_paths = convert_pdf_to_images(n)]
            ELSE [Raise(r, "fitz: cannot open document") EXCEPT
                    !.did = @ \cup {"rasterize"}]
       ELSE [@ EXCEPT !.pc = "pages", !.image_paths = <<0>>]]
  /\ run[r].file_type.v = "pdf" /\ ok => n \in 1..MaxPages
  /\ ~(run[r].file_type.v = "pdf" /\ ok) => n = 0
  /\ run[r].file_type.v # "pdf" => ok
  /\ UNCHANGED <<requests, store, writes, lookup, handler>>

\* Lines 442-449: the pages of the document, by declared type. A pdf gives
\* n pages, unless the conversion raises (ok false).
Rasterize(r, ok, n) ==
  /\ run[r].pc = "rasterize"
  /\ run' = [run EXCEPT ![r] =
       IF run[r].file_type.v = "pdf"
       THEN IF ok
            THEN [@ EXCEPT !.pc = "pages", !.did = @ \cup {"rasterize"},
                           !.image_paths = convert_pdf_to_images(n)]
            ELSE [Raise(r, "fitz: cannot open document") EXCEPT
                    !.did = @ \cup {"rasterize"}]
       ELSE IF run[r].file_type.v = "image"
       THEN \* [file_path]: the downloaded file itself, written 0
            [@ EXCEPT !.pc = "pages", !.image_paths = <<0>>]
       ELSE Raise(r, "Unsupported file type")]
  /\ run[r].file_type.v = "pdf" /\ ok => n \in 1..MaxPages
  /\ ~(run[r].file_type.v = "pdf" /\ ok) => n = 0
  /\ run[r].file_type.v # "pdf" => ok
  /\ UNCHANGED <<requests, store, writes, lookup, handler>>

\* (extract_qr_codes_ZeroBased: the codes numbered by the loop index.)
extract_qr_codes_ZeroBased(codes, page_num) ==
  [k \in 1..Len(codes) |->
     [page |-> page_num - 1, data |-> codes[k], position |-> Position]]

\* extract_qr_codes: one QRCode per decoded payload, on page page_num.
extract_qr_codes(codes, page_num) ==
  [k \in 1..Len(codes) |->
     [page |-> page_num, data |-> codes[k], position |-> Position]]

\* Lines 450-455: one iteration of the page loop on what the libraries give
\* for this page.
Page(r, out) ==
  /\ run[r].pc = "pages"
  /\ run[r].i < Len(run[r].image_paths)
  /\ LET page_num == run[r].i + 1
         ocr == extract_text_ocr(out.string, out.data_ok, out.data, page_num)
     IN run' = [run EXCEPT ![r] =
          IF ~out.open
          THEN Raise(r, "cannot identify image file")
          ELSE IF ~out.string_ok
          THEN [Raise(r, "image_to_string failed") EXCEPT
                  !.did = @ \cup {"qr", "ocr"},
                  !.unread = @ \cup {page_num},
                  !.qr_codes = @ \o extract_qr_codes(out.codes, page_num)]
          ELSE [@ EXCEPT
                  !.did = @ \cup {"qr", "ocr"},
                  !.unread = IF out.data_ok THEN @ ELSE @ \cup {page_num},
                  !.qr_codes = @ \o extract_qr_codes(out.codes, page_num),
                  !.ocr_results = Append(@, ocr),
                  !.all_text = @ \o <<NL>> \o ocr.text,
                  !.i = page_num,
                  !.pc = IF page_num = Len(run[r].image_paths)
                         THEN "w_validating" ELSE "pages"]]
  /\ UNCHANGED <<requests, store, writes, lookup, handler>>

\* Line 457: the "validating" snapshot.
WriteValidating(r, ok) ==
  /\ run[r].pc = "w_validating"
  /\ LET updates == [current_step |-> Str("validating")] IN
     /\ ok => KeyOK(run[r].fileId, run[r].uploadedBy)
     /\ store' = Written(r, run[r].fileId, run[r].uploadedBy, updates, ok)
     /\ writes' = [writes EXCEPT ![r] =
                     Append(@, WriteEntry(r, "progress", updates, ok))]
     /\ run' = [run EXCEPT ![r] =
                  IF ok THEN [@ EXCEPT !.pc = "validate", !.utcnow = @ + 1]
                  ELSE [Raise(r, StoreError) EXCEPT !.utcnow = @ + 1]]
  /\ UNCHANGED <<requests, lookup, handler>>


\* Line 462 and lines 470-474: the score, the status and the error list.
ScoreFound == 80
ScoreMissing == 40
PassMark == 50

validation_score(invoice_fields) ==
  IF invoice_fields["Invoice Number"] # NotFound THEN ScoreFound
  ELSE ScoreMissing
result_status(score) == IF score >= PassMark THEN "completed" ELSE "failed"
\* (result_errors_Always: line 474 without its condition.)
result_errors_Always(score) == <<Str("Missing Invoice Number")>>

result_errors(score) ==
  IF score >= PassMark THEN <<>> ELSE <<Str("Missing Invoice Number")>>

\* Lines 489-505: the stored form of one OCRResult.
clean_ocr_result(o) ==
  LET always == {"page", "text", "confidence"}
      extra == (IF o.raw_text # <<>> THEN {"raw_text"} ELSE {})
               \cup (IF o.word_count # 0 THEN {"word_count"} ELSE {})
               \cup (IF o.line_count # 0 THEN {"line_count"} ELSE {})
  IN Dct([k \in always \cup extra |->
            CASE k = "page" -> IntV(o.page)
              [] k = "text" -> Txt(o.text)
              [] k = "confidence" -> Flt(o.confidence)
              [] k = "raw_text" -> Txt(o.raw_text)
              [] k = "word_count" -> IntV(o.word_count)
              [] OTHER -> IntV(o.line_count)])

\* q.dict()
qr_dict(q) ==
  Dct([page |-> IntV(q.page), data |-> Txt(q.data),
       position |-> Dct([k \in DOMAIN q.position |-> IntV(q.position[k])])])

TxtList(xs) == Lst([i \in 1..Len(xs) |-> Txt(xs[i])])

\* Lines 507-525: the mapping given to clean_for_dynamodb for the final write.
FinalMapping(rn, processed_date) ==
  [status |-> Str(result_status(rn.score)),
   qr_codes |-> Lst([i \in 1..Len(rn.qr_codes) |-> qr_dict(rn.qr_codes[i])]),
   ocr_results |->
     Lst([i \in 1..Len(rn.ocr_results) |-> clean_ocr_result(rn.ocr_results[i])]),
   ocr_summary |-> format_ocr_summary(rn.ocr_results),
   validation_score |-> IntV(rn.score),
   validation_errors |-> Lst(result_errors(rn.score)),
   processed_date |-> processed_date,
   invoice_fields |->
     Dct([k \in DOMAIN rn.invoice_fields |-> Txt(rn.invoice_fields[k])]),
   validated_qr_links |-> TxtList(rn.valid_links),
   invalid_qr_links |-> TxtList(rn.invalid_links),
   fileName |-> rn.record.fileName,
   fileType |-> rn.record.fileType,
   fileSize |-> rn.record.fileSize,
   s3Key |-> rn.record.s3Key,
   s3Url |-> rn.record.s3Url,
   uploadDate |-> rn.record.uploadDate,
   metadata |-> rn.record.metadata]

\* Lines 459-505: the fields, the link check on what each fetch gives, the
\* score and the result.
Validate(r, fetched) ==
  /\ run[r].pc = "validate"
  /\ \E invoice_fields \in {extract_invoice_fields(run[r].all_text)} :
     \E qr_data_list \in
          {[k \in 1..Len(run[r].qr_codes) |-> run[r].qr_codes[k].data]} :
     \E links \in {check_qr_links(qr_data_list, invoice_fields, fetched)} :
     \E score \in {validation_score(invoice_fields)} :
       run' = [run EXCEPT ![r] =
                 [@ EXCEPT
                    !.invoice_fields = invoice_fields,
                    !.valid_links = links.valid,
                    !.invalid_links = links.invalid,
                    !.gets = links.gets,
                    !.fetched = fetched,
                    !.score = score,
                    !.utcnow = @ + 1,
                    !.did = @ \cup {"parse", "links", "score"},
                    !.pc = "w_final",
                    !.processed_date = Time(r, run[r].utcnow + 1)]]
  /\ UNCHANGED <<requests, store, writes, lookup, handler>>

\* The link check of run r on fetches drawn from `outcomes`.
Validating(r, outcomes) ==
  \E fetched \in [1..Len(run[r].qr_codes) -> outcomes] : Validate(r, fetched)

\* Lines 507-525: the final write; leaving the with block removes the
\* temporary directory.
\* (FinalWrite_ThenFails: a final write followed by an error inside the try
\* block.)
FinalWrite_ThenFails(r, ok) ==
  /\ run[r].pc = "w_final"
  /\ \E result \in {Dct(FinalMapping(run[r], run[r].processed_date))} :
     \E updates \in {clean_for_dynamodb(result).v} :
     /\ ok => KeyOK(run[r].fileId, run[r].uploadedBy)
     /\ store' = Written(r, run[r].fileId, run[r].uploadedBy, updates, ok)
     /\ writes' = [writes EXCEPT ![r] =
                     Append(@, WriteEntry(r, "final", updates, ok))]
     /\ run' = [run EXCEPT ![r] =
                  [Raise(r, "rmtree failed") EXCEPT !.utcnow = @ + 1]]
  /\ UNCHANGED <<requests, lookup, handler>>

\* (FinalWrite_Escapes: a rejected final write whose exception leaves the task
\* without reaching the except clause.)
FinalWrite_Escapes(r, ok) ==
  /\ run[r].pc = "w_final"
  /\ \E result \in {Dct(FinalMapping(run[r], run[r].processed_date))} :
     \E updates \in {clean_for_dynamodb(result).v} :
     /\ ok => KeyOK(run[r].fileId, run[r].uploadedBy)
     /\ store' = Written(r, run[r].fileId, run[r].uploadedBy, updates, ok)
     /\ writes' = [writes EXCEPT ![r] =
                     Append(@, WriteEntry(r, "final", updates, ok))]
     /\ run' = [run EXCEPT ![r] =
                  [Ended(@, IF ok THEN "done" ELSE "raised") EXCEPT
                     !.utcnow = @ + 1]]
  /\ UNCHANGED <<requests, lookup, handler>>

FinalWrite(r, ok) ==
  /\ run[r].pc = "w_final"
  /\ \E result \in {Dct(FinalMapping(run[r], run[r].processed_date))} :
     \E updates \in {clean_for_dynamodb(result).v} :
     /\ ok => KeyOK(run[r].fileId, run[r].uploadedBy)
     /\ store' = Written(r, run[r].fileId, run[r].uploadedBy, updates, ok)
     /\ writes' = [writes EXCEPT ![r] =
                     Append(@, WriteEntry(r, "final", updates, ok))]
     /\ run' = [run EXCEPT ![r] =
                  IF ok
                  THEN [Ended(@, "done") EXCEPT !.utcnow = @ + 1]
                  ELSE [Raise(r, StoreError) EXCEPT !.utcnow = @ + 1]]
  /\ UNCHANGED <<requests, lookup, handler>>

\* Lines 527-535: the except clause writes the failure record; when that
\* write is rejected the exception leaves the task.
FailureUpdates(rn, processed_date) ==
  [status |-> Str("failed"), error |-> Str(rn.err),
   processed_date |-> processed_date]

Except(r, ok) ==
  /\ run[r].pc = "except"
  /\ \E record \in {run[r].record} :
     \E fileId \in {IF Truthy(record.fileId) THEN record.fileId
                    ELSE record.document_id} :
     \E uploadedBy \in {IF Truthy(record.uploadedBy) THEN record.uploadedBy
                        ELSE Str("system")} :
     \E stamped \in {[run[r] EXCEPT !.utcnow = @ + 1, !.fileId = fileId,
                                    !.uploadedBy = uploadedBy]} :
     \E updates \in {FailureUpdates(stamped, Time(r, stamped.utcnow))} :
       /\ ok => KeyOK(fileId, uploadedBy)
       /\ store' = Written(r, fileId, uploadedBy, updates, ok)
       /\ writes' = [writes EXCEPT ![r] =
                       Append(@, WriteEntry(r, "failure", updates, ok))]
       /\ run' = [run EXCEPT ![r] =
                    [Ended(stamped, IF ok THEN "done" ELSE "raised") EXCEPT
                       !.utcnow = @ + 1]]
  /\ UNCHANGED <<requests, lookup, handler>>

\* --------------------------------------------------------------- get_status
\* (get_item_AnyUploader: the lookup by fileId alone, whoever uploaded it.)
get_item_AnyUploader(table, fileId, uploadedBy) ==
  IF \E k \in DOMAIN table : k[1] = fileId /\ table[k] # NoItem
  THEN [Item |-> table[CHOOSE k \in DOMAIN table :
                         k[1] = fileId /\ table[k] # NoItem]]
  ELSE <<>>

\* table.get_item(Key=...): the response holds "Item" when the key has one.
get_item(table, fileId, uploadedBy) ==
  IF <<fileId, uploadedBy>> \in DOMAIN table /\ table[<<fileId, uploadedBy>>] # NoItem
  THEN [Item |-> table[<<fileId, uploadedBy>>]]
  ELSE <<>>

\* Lines 550-557: GET /status/{fileId}, uploadedBy a query parameter that
\* defaults to "system"; 404 when the response has no Item, else the Item.
get_status(fileId, uploadedBy) ==
  LET response == get_item(store, fileId, uploadedBy) IN
  IF "Item" \notin DOMAIN response
  THEN [code |-> 404, json |-> Dct([detail |-> Str("File not found")])]
  ELSE [code |-> 200, json |-> Dct(response.Item)]

\* given is the query parameter as sent: None when the caller left it out.
Status(fileId, given) ==
  /\ LET uploadedBy == IF given = NoneV THEN "system" ELSE given.v
         answer == get_status(fileId, uploadedBy)
     IN lookup' = [fileId |-> fileId, uploadedBy |-> given,
                   code |-> answer.code, json |-> answer.json]
  /\ UNCHANGED <<requests, run, store, writes, handler>>

\* Lines 559-566: GET /status/{fileId}/{uploadedBy}, the same lookup with the
\* uploader in the path.
get_status_with_user(fileId, uploadedBy) ==
  LET response == get_item(store, fileId, uploadedBy) IN
  IF "Item" \notin DOMAIN response
  THEN [code |-> 404, json |-> Dct([detail |-> Str("File not found")])]
  ELSE [code |-> 200, json |-> Dct(response.Item)]

StatusWithUser(fileId, uploadedBy) ==
  /\ LET answer == get_status_with_user(fileId, uploadedBy)
     IN lookup' = [fileId |-> fileId, uploadedBy |-> Str(uploadedBy),
                   code |-> answer.code, json |-> answer.json]
  /\ UNCHANGED <<requests, run, store, writes, handler>>

\* --------------------------------------------------------- dynamodb_trigger
\* A stream record is [eventName, dynamodb |-> [NewImage |-> item]]; an item
\* maps attribute names to typed values, [S |-> "..."] or [N |-> n].
AWS_REGION == "us-east-1"
DefaultBucket == "document-processor-documents"

HasS(item, k) == k \in DOMAIN item /\ "S" \in DOMAIN item[k]
\* dynamodb_item.get(k, {}).get('S', '')
GetS(item, k) == IF HasS(item, k) THEN item[k].S ELSE ""

\* s.split('/')[-1], on the strings of the inputs: the ones that hold a slash
\* are listed, every other one is its own last segment.
LastSegment(s) ==
  CASE s = "application/pdf" -> "pdf"
    [] s = "docs/k" -> "k"
    [] OTHER -> s

\* Lines 57-66: re.search(r'https://([^.]+)\.s3\.', s3Url), on the inputs.
BucketOf(s3Url) ==
  IF s3Url = "https://b.s3.us-east-1.amazonaws.com/k" THEN "b" ELSE DefaultBucket

\* Line 98: f"https://{bucket}.s3.{AWS_REGION}.amazonaws.com/{key}", on the
\* inputs.
S3UrlOf(bucket, key) ==
  CASE bucket = "b" /\ key = "k" -> "https://b.s3.us-east-1.amazonaws.com/k"
    [] bucket = "b" /\ key = "docs/k" ->
         "https://b.s3.us-east-1.amazonaws.com/docs/k"

Raised(e) == [raised |-> TRUE, e |-> e, value |-> <<>>]
Returned(x) == [raised |-> FALSE, e |-> "", value |-> x]

\* Lines 40-75: the new schema, then the legacy fields.
NewSchemaRecord(item) ==
  IF ~(HasS(item, "fileId") /\ HasS(item, "uploadedBy") /\ HasS(item, "status"))
  THEN Raised("KeyError")
  ELSE IF /\ "fileSize" \in DOMAIN item
          /\ "N" \in DOMAIN item["fileSize"]
          /\ item["fileSize"].N \notin Int
  THEN Raised("ValueError")
  ELSE LET fileType == GetS(item, "fileType")
           s3Url == GetS(item, "s3Url")
       IN Returned(
            [fileId |-> Str(item["fileId"].S),
             uploadedBy |-> Str(item["uploadedBy"].S),
             fileName |-> Str(GetS(item, "fileName")),
             fileType |-> Str(fileType),
             fileSize |-> IF "fileSize" \in DOMAIN item
                          THEN IntV(IF "N" \in DOMAIN item["fileSize"]
                                    THEN item["fileSize"].N ELSE 0)
                          ELSE NoneV,
             s3Key |-> Str(GetS(item, "s3Key")),
             s3Url |-> Str(s3Url),
             uploadDate |-> Str(GetS(item, "uploadDate")),
             status |-> Str(item["status"].S),
             metadata |-> Dct(IF "metadata" \in DOMAIN item
                                 /\ "M" \in DOMAIN item["metadata"]
                              THEN item["metadata"].M ELSE <<>>),
             document_id |-> Str(item["fileId"].S),
             bucket |-> Str(IF s3Url # "" THEN BucketOf(s3Url) ELSE DefaultBucket),
             key |-> Str(GetS(item, "s3Key")),
             file_type |-> Str(LastSegment(fileType)),
             upload_date |-> Str(GetS(item, "uploadDate"))])

\* Lines 77-100: the old schema, then the new fields.
OldSchemaRecord(item) ==
  IF ~(/\ HasS(item, "id") /\ HasS(item, "bucket") /\ HasS(item, "key")
       /\ HasS(item, "status") /\ HasS(item, "file_type"))
  THEN Raised("KeyError")
  ELSE IF "upload_date" \in DOMAIN item /\ ~HasS(item, "upload_date")
  THEN Raised("KeyError")
  ELSE LET upload_date == IF "upload_date" \in DOMAIN item
                          THEN "upload_date" :> Str(item["upload_date"].S)
                          ELSE <<>>
       IN Returned(
            [document_id |-> Str(item["id"].S),
             bucket |-> Str(item["bucket"].S),
             key |-> Str(item["key"].S),
             status |-> Str(item["status"].S),
             file_type |-> Str(item["file_type"].S),
             fileId |-> Str(item["id"].S),
             uploadedBy |-> Str("system"),
             fileName |-> Str(LastSegment(item["key"].S)),
             fileType |-> Str(item["file_type"].S),
             s3Key |-> Str(item["key"].S),
             s3Url |-> Str(S3UrlOf(item["bucket"].S, item["key"].S)),
             uploadDate |-> Str(GetS(item, "upload_date"))]
            @@ upload_date)

\* Lines 34-100: record['dynamodb']['NewImage'] and its normalization.
document_record(record) ==
  IF "dynamodb" \notin DOMAIN record \/ "NewImage" \notin DOMAIN record.dynamodb
  THEN Raised("KeyError")
  ELSE LET dynamodb_item == record.dynamodb.NewImage
       IN IF "fileId" \in DOMAIN dynamodb_item
          THEN NewSchemaRecord(dynamodb_item)
          ELSE OldSchemaRecord(dynamodb_item)

\* d.get(k): None when the key is absent
Get(d, k) == IF k \in DOMAIN d THEN d[k] ELSE NoneV
When(cond, k, v) == IF cond THEN k :> v ELSE <<>>

\* Lines 148-185: the record that is sent. Every value is already a string
\* (or an int for fileSize), so str() and int() give it back.
clean_record(d) ==
  LET document_id == IF "document_id" \in DOMAIN d THEN d["document_id"]
                     ELSE d["fileId"]
      key == IF "key" \in DOMAIN d THEN d["key"] ELSE Get(d, "s3Key")
  IN [fileId |-> d["fileId"],
      uploadedBy |-> d["uploadedBy"],
      fileName |-> IF "fileName" \in DOMAIN d THEN d["fileName"] ELSE Str(""),
      fileType |-> IF "fileType" \in DOMAIN d THEN d["fileType"] ELSE Str(""),
      s3Key |-> IF "s3Key" \in DOMAIN d THEN d["s3Key"] ELSE Str(""),
      status |-> d["status"]]
     @@ When(Get(d, "fileSize") # NoneV, "fileSize", Get(d, "fileSize"))
     @@ When(Truthy(Get(d, "s3Url")), "s3Url", Get(d, "s3Url"))
     @@ When(Truthy(Get(d, "uploadDate")), "uploadDate", Get(d, "uploadDate"))
     @@ When(Truthy(Get(d, "metadata")), "metadata", Get(d, "metadata"))
     @@ When(Truthy(document_id), "document_id", document_id)
     @@ When(Truthy(Get(d, "bucket")), "bucket", Get(d, "bucket"))
     @@ When(Truthy(key), "key", key)

\* (skip_event_Never: every event goes on to the status test.)
skip_event_Never(record) == FALSE

\* Line 29: only INSERT events are processed.
skip_event(record) == record.eventName # "INSERT"

\* Line 103: only 'pending' documents are processed.
skip_status(d) == d["status"] # Str("pending")

\* Lines 139-231: call_process_endpoint. Without the service URL nothing is
\* sent; the POST fails when the service cannot be reached (net = "down") or
\* answers an error status (raise_for_status).
call_process_endpoint(url, d, net) ==
  IF ~Truthy(url) THEN [posted |-> FALSE, raised |-> TRUE, e |-> "ValueError"]
  ELSE IF net = "down"
  THEN [posted |-> FALSE, raised |-> TRUE, e |-> "ConnectionError"]
  ELSE IF process_document(clean_record(d)).code >= 400
  THEN [posted |-> TRUE, raised |-> TRUE, e |-> "HTTPError"]
  ELSE [posted |-> TRUE, raised |-> FALSE, e |-> ""]

\* Lines 16-24: the invocation starts.
Invoke(event, url) ==
  /\ handler.pc = "idle"
  /\ handler' = [IdleHandler EXCEPT !.pc = "loop", !.event = event,
                                    !.url = url, !.i = 1]
  /\ UNCHANGED <<requests, run, store, writes, lookup>>

\* (outer_except_Propagates: the exception leaving lambda_handler.)
outer_except_Propagates(h, e) == [h EXCEPT !.pc = "raised"]

\* Lines 121-124: the outer handler records the error; the loop is over.
outer_except(h, e) ==
  [h EXCEPT !.errors = Append(@, [kind |-> "event", fileId |-> NoneV, e |-> e]),
            !.pc = "return"]

\* Lines 27-119: one iteration of the loop over event['Records'].
Iterate(net) ==
  /\ handler.pc = "loop"
  /\ handler.i <= Len(handler.event)
  /\ LET record == handler.event[handler.i]
         next == [handler EXCEPT !.i = @ + 1]
     IN IF "eventName" \notin DOMAIN record
        THEN \* record['eventName'], line 29
             /\ handler' = outer_except(handler, "KeyError")
             /\ UNCHANGED <<requests, run>>
        ELSE IF skip_event(record)
        THEN handler' = next /\ UNCHANGED <<requests, run>>
        ELSE \E normal \in {document_record(record)} :
          IF normal.raised
          THEN /\ handler' = outer_except(handler, normal.e)
               /\ UNCHANGED <<requests, run>>
          ELSE IF skip_status(normal.value)
          THEN handler' = next /\ UNCHANGED <<requests, run>>
          ELSE \E call \in {call_process_endpoint(handler.url, normal.value, net)} :
            /\ handler' = [next EXCEPT
                 !.calls = Append(@, [index |-> handler.i,
                                      record |-> clean_record(normal.value),
                                      posted |-> call.posted,
                                      raised |-> call.raised]),
                 !.processed_count = IF call.raised THEN @ ELSE @ + 1,
                 !.errors = IF call.raised
                            THEN Append(@, [kind |-> "call",
                                            fileId |-> normal.value["fileId"],
                                            e |-> call.e])
                            ELSE @]
            /\ IF call.posted
               THEN Schedule(Len(requests) + 1, clean_record(normal.value))
               ELSE UNCHANGED <<requests, run>>
  /\ UNCHANGED <<store, writes, lookup>>

\* Lines 126-137: the summary.
Return ==
  /\ \/ handler.pc = "return"
     \/ handler.pc = "loop" /\ handler.i > Len(handler.event)
  /\ handler' = [handler EXCEPT
       !.pc = "done",
       !.result = [statusCode |-> 200,
                   body |-> [processed_documents |-> handler.processed_count,
                             errors |-> handler.errors,
                             total_records |-> Len(handler.event)]]]
  /\ UNCHANGED <<requests, run, store, writes, lookup>>

\* The stream records of the events.
StreamRecord(eventName, item) ==
  [eventName |-> eventName, dynamodb |-> [NewImage |-> item]]
NewItem(fileId, fileType, status) ==
  [fileId |-> [S |-> fileId], uploadedBy |-> [S |-> "u1"],
   fileName |-> [S |-> "a.pdf"], fileType |-> [S |-> fileType],
   s3Key |-> [S |-> "k"],
   s3Url |-> [S |-> "https://b.s3.us-east-1.amazonaws.com/k"],
   status |-> [S |-> status]]
OldItem(status) ==
  [id |-> [S |-> "f2"], bucket |-> [S |-> "b"], key |-> [S |-> "docs/k"],
   status |-> [S |-> status], file_type |-> [S |-> "pdf"]]
NoStatusItem ==
  [fileId |-> [S |-> "f1"], uploadedBy |-> [S |-> "u1"], s3Key |-> [S |-> "k"]]

StreamRecords ==
  { StreamRecord("INSERT", NewItem("f1", "application/pdf", "pending")),
    StreamRecord("INSERT", NewItem("f1", "pdf", "completed")),
    StreamRecord("MODIFY", NewItem("f1", "pdf", "pending")),
    StreamRecord("INSERT", OldItem("pending")),
    StreamRecord("INSERT", NoStatusItem),
    [dynamodb |-> [NewImage |-> OldItem("pending")]] }

MaxRecords == 2
Events ==
  UNION {[1..n -> StreamRecords] : n \in 0..MaxRecords}


\* ------------------------------------------------------------------- spec
\* The inputs of the concurrent specifications: one readable page and the two
\* ways a page fails, a fetch that raises and one that answers.
LeanPageOutcomes ==
  {out \in PageOutcomes : ~out.open \/ ~out.string_ok \/ out.codes = <<LongPayload>>}
LeanFetchOutcomes ==
  {got \in FetchOutcomes : got.kind = "raise" \/ got.html = PageHit}

\* Two requests, their runs interleaved at every step; the table accepts or
\* rejects each write.
Next ==
  \/ \E i \in RunIds, body \in Bodies : Process(i, body)
  \/ \E r \in RunIds, ok \in BOOLEAN : Start(r, ok)
  \/ \E r \in RunIds, ok \in BOOLEAN : Download(r, ok)
  \/ \E r \in RunIds, ok \in BOOLEAN, n \in 0..MaxPages : Rasterize(r, ok, n)
  \/ \E r \in RunIds, out \in LeanPageOutcomes : Page(r, out)
  \/ \E r \in RunIds, ok \in BOOLEAN : WriteValidating(r, ok)
  \/ \E r \in RunIds : Validating(r, LeanFetchOutcomes)
  \/ \E r \in RunIds, ok \in BOOLEAN : FinalWrite(r, ok)
  \/ \E r \in RunIds, ok \in BOOLEAN : Except(r, ok)

Spec == Init /\ [][Next]_vars

\* One request and its run, on every page outcome and every fetch outcome.
NextRun ==
  \/ \E body \in Bodies : Process(1, body)
  \/ \E ok \in BOOLEAN : Start(1, ok)
  \/ \E ok \in BOOLEAN : Download(1, ok)
  \/ \E ok \in BOOLEAN, n \in 0..MaxPages : Rasterize(1, ok, n)
  \/ \E out \in PageOutcomes : Page(1, out)
  \/ \E ok \in BOOLEAN : WriteValidating(1, ok)
  \/ Validating(1, FetchOutcomes)
  \/ \E ok \in BOOLEAN : FinalWrite(1, ok)
  \/ \E ok \in BOOLEAN : Except(1, ok)

SpecRun == Init /\ [][NextRun]_vars

\* One request and its run, with status lookups at any moment.
LookupIds == FileIds \cup {"f3"}
NextStatus ==
  \/ NextRun
  \/ \E fileId \in LookupIds, given \in {NoneV} \cup {Str(u) : u \in Uploaders} :
       Status(fileId, given)
  \/ \E fileId \in LookupIds, uploadedBy \in Uploaders :
       StatusWithUser(fileId, uploadedBy)

SpecStatus == Init /\ [][NextStatus]_vars

\* One invocation of lambda_handler on every event, with the service URL set
\* or not, against the endpoint.
NextLambda ==
  \/ \E event \in Events, url \in {NoneV, Str("http://alb")} : Invoke(event, url)
  \/ \E net \in {"up", "down"} : Iterate(net)
  \/ Return

SpecLambda == Init /\ [][NextLambda]_vars

\* The runs when every write is accepted and every step that can be taken is
\* taken: a task that was added runs to its end.
RunStep(r) ==
  \/ Start(r, TRUE)
  \/ \E ok \in BOOLEAN : Download(r, ok)
  \/ \E ok \in BOOLEAN, n \in 0..MaxPages : Rasterize(r, ok, n)
  \/ \E out \in LeanPageOutcomes : Page(r, out)
  \/ WriteValidating(r, TRUE)
  \/ Validating(r, LeanFetchOutcomes)
  \/ FinalWrite(r, TRUE)
  \/ Except(r, TRUE)

NextLive ==
  \/ \E i \in RunIds, body \in Bodies : Process(i, body)
  \/ \E r \in RunIds : RunStep(r)

SpecLive ==
  Init /\ [][NextLive]_vars /\ \A r \in RunIds : WF_vars(RunStep(r))


\* ================================================================ claims
Attr(item, k) == IF k \in DOMAIN item THEN item[k] ELSE NoneV
ItemOf(r) == store[<<run[r].fileId.v, run[r].uploadedBy.v>>]
LastWrite(r) == writes[r][Len(writes[r])]
Ended_(r) == run[r].pc \in {"done", "raised"}
IsTerminal(w) == w.status \in {"completed", "failed"}

C2_Original ==
  [][\A r \in RunIds :
       (run[r].pc = "except" /\ run'[r].pc # "except") =>
         LET item == store'[<<run'[r].fileId.v, run'[r].uploadedBy.v>>]
         IN /\ run'[r].pc = "done"
            /\ Attr(item, "status") = Str("failed")
            /\ Attr(item, "error") = Str(run[r].err)
            /\ Attr(item, "processed_date").t = "time"]_vars


\* C3: with every store write accepted and every external call returning,
\* each started run eventually ends having written exactly one terminal
\* status ("completed" or "failed"), which is its last write, and every step
\* of a run moves it forward: no stage and no run is entered a second time.
Rank(pc) ==
  CASE pc = "idle" -> 0 [] pc = "start" -> 1 [] pc = "download" -> 2
    [] pc = "rasterize" -> 3 [] pc = "pages" -> 4 [] pc = "w_validating" -> 5
    [] pc = "validate" -> 6 [] pc = "w_final" -> 7 [] pc = "except" -> 8
    [] OTHER -> 9
TerminalWrites(r) == {k \in DOMAIN writes[r] : IsTerminal(writes[r][k])}
C3_OneTerminalWrite ==
  /\ \A r \in RunIds :
       (run[r].pc = "start") ~>
         (run[r].pc = "done" /\ Cardinality(TerminalWrites(r)) = 1)
  /\ [](\A r \in RunIds :
          /\ Cardinality(TerminalWrites(r)) <= 1
          /\ TerminalWrites(r) # {} =>
               /\ TerminalWrites(r) = {Len(writes[r])}
               /\ run[r].pc = "done")
  /\ [][\A r \in RunIds :
          /\ run'[r] # run[r] =>
               \/ Rank(run'[r].pc) > Rank(run[r].pc)
               \/ /\ run[r].pc = "pages" /\ run'[r].pc = "pages"
                  /\ run'[r].i > run[r].i
          /\ TerminalWrites(r) # {} => writes'[r] = writes[r]
          /\ (writes'[r] # writes[r] /\ IsTerminal(writes'[r][Len(writes'[r])])) =>
               Attr(store'[<<run'[r].fileId.v, run'[r].uploadedBy.v>>], "status").v
                 = writes'[r][Len(writes'[r])].status]_vars

C3_Witness ==
  /\ \A r \in RunIds : run[r].pc = "done" /\ Cardinality(TerminalWrites(r)) = 1
  /\ LastWrite(1).status = "completed"
  /\ LastWrite(2).status = "failed"

\* C4: a run that finishes normally has written, in this order and none
\* skipped, processing/downloading, processing/converting (pdf) or
\* processing/processing_image (image), processing/extracting,
\* processing/validating, and then the terminal status.
Snapshots(r) ==
  [k \in 1..Len(writes[r]) |-> <<writes[r][k].status, writes[r][k].step>>]
C4_Original ==
  \A r \in RunIds :
    (run[r].pc = "done" /\ run[r].err = "") =>
      \E terminal \in {"completed", "failed"} :
        Snapshots(r) =
          << <<"processing", "downloading">>,
             <<"processing", IF run[r].file_type.v = "pdf" THEN "converting"
                             ELSE "processing_image">>,
             <<"processing", "extracting">>,
             <<"processing", "validating">>,
             <<terminal, "">> >>

\* C5: when the store rejects a progress write (the "downloading" or the
\* "validating" snapshot) the run carries on with the next stage, the
\* download or the validation.
C5_Original ==
  \A r \in RunIds :
    (Len(writes[r]) > 0 /\ LastWrite(r).kind = "progress" /\ ~LastWrite(r).ok) =>
      /\ run[r].pc \in {"download", "validate"}
      /\ run[r].err = ""

\* C6: a run on a record whose declared type is neither "pdf" nor "image"
\* does no rasterization, code reading, text reading, field parsing or link
\* fetch, its last write is the failure record, and once the table has
\* accepted that write the stored status is "failed".
Extraction == {"rasterize", "qr", "ocr", "parse", "links", "score"}
C6_UnsupportedTypeFails ==
  \A r \in RunIds :
    (run[r].pc # "idle" /\ run[r].record.fileType.v \notin {"pdf", "image"}) =>
      /\ run[r].did \cap Extraction = {}
      /\ run[r].pc \in {"start", "download", "rasterize", "except", "done", "raised"}
      /\ Ended_(r) =>
           /\ run[r].err # ""
           /\ LastWrite(r).kind = "failure" /\ LastWrite(r).status = "failed"
           /\ LastWrite(r).ok <=> run[r].pc = "done"
      /\ run[r].pc = "done" => Attr(ItemOf(r), "status") = Str("failed")

C6_Witness ==
  \E r \in RunIds :
    /\ run[r].pc = "done"
    /\ run[r].record.fileType.v = "docx"
    /\ run[r].err = "Unsupported file type"
    /\ "download" \in run[r].did
    /\ Attr(ItemOf(r), "status") = Str("failed")

\* C7: when text recognition fails on a page, the step leaves the run in the
\* page loop (or past it) with an OCRResult for that page whose text is empty
\* and whose confidence is 0.
C7_Original ==
  [][\A r \in RunIds : \A p \in run'[r].unread \ run[r].unread :
       /\ run'[r].pc \in {"pages", "w_validating"}
       /\ Len(run'[r].ocr_results) = p
       /\ run'[r].ocr_results[p].text = <<>>
       /\ run'[r].ocr_results[p].confidence = 0]_vars

\* C8: the score computed by a run is in 0..100, the result's status is
\* "completed" exactly when the score is at least 50 and "failed" otherwise,
\* its error list is empty exactly when the status is "completed", and these
\* are the values the item holds once the final write is accepted.
C8_ScoreGate ==
  \A r \in RunIds :
    /\ run[r].pc = "w_final" =>
         LET result == FinalMapping(run[r], run[r].processed_date) IN
         /\ run[r].score \in 0..100
         /\ result.validation_score = IntV(run[r].score)
         /\ result.status.v = IF run[r].score >= 50 THEN "completed" ELSE "failed"
         /\ result.validation_errors.v = <<>> <=> result.status.v = "completed"
    /\ (Len(writes[r]) > 0 /\ LastWrite(r).kind = "final" /\ LastWrite(r).ok) =>
         LET item == ItemOf(r) IN
         /\ Attr(item, "validation_score").t = "int"
         /\ Attr(item, "validation_score").v \in 0..100
         /\ Attr(item, "status").v =
              IF Attr(item, "validation_score").v >= 50 THEN "completed"
              ELSE "failed"
         /\ Attr(item, "validation_errors").t = "list"
         /\ Attr(item, "validation_errors").v = <<>>
              <=> Attr(item, "status").v = "completed"

C8_Witness ==
  \E r \in RunIds :
    /\ run[r].pc = "done"
    /\ LastWrite(r).kind = "final" /\ LastWrite(r).ok
    /\ Attr(ItemOf(r), "validation_score") = IntV(40)
    /\ Attr(ItemOf(r), "status") = Str("failed")
    /\ Attr(ItemOf(r), "validation_errors").v # <<>>

\* C9: the score of a run equals the reference rubric: +30 if a code was
\* read, +10 per code whose payload is longer than 10 characters, +20 if the
\* recognized text is non-empty, +20 if the average confidence is above 70 or
\* +10 if it is above 50, +10 if the combined text is longer than 50
\* characters, +5 for each of date, amount, total, invoice in the combined
\* text (any case), the sum clamped to 0..100.
RubricWords ==
  {<<"d","a","t","e">>, <<"a","m","o","u","n","t">>,
   <<"t","o","t","a","l">>, <<"i","n","v","o","i","c","e">>}
Clamp(x) == IF x < 0 THEN 0 ELSE IF x > 100 THEN 100 ELSE x
Rubric(rn) ==
  LET n == Len(rn.ocr_results)
      tenths == SumSeq([k \in 1..n |-> rn.ocr_results[k].confidence])
      long == {k \in 1..Len(rn.qr_codes) : Len(rn.qr_codes[k].data) > 10}
  IN Clamp((IF rn.qr_codes # <<>> THEN 30 ELSE 0)
           + 10 * Cardinality(long)
           + (IF Strip(rn.all_text) # <<>> THEN 20 ELSE 0)
           + (IF tenths > 700 * n THEN 20 ELSE IF tenths > 500 * n THEN 10 ELSE 0)
           + (IF Len(rn.all_text) > 50 THEN 10 ELSE 0)
           + 5 * Cardinality({w \in RubricWords : Contains(Lower(rn.all_text), w)}))
C9_Original ==
  \A r \in RunIds : run[r].pc = "w_final" => run[r].score = Rubric(run[r])

\* C10: check_qr_links puts every payload into exactly one of its two lists,
\* in order (a failed fetch into the invalid list, annotated with the error),
\* so the two lengths add up to the number of payloads; it fetches each
\* payload once, in order, and a failed fetch does not stop the later
\* payloads from being classified.
Picks(links, f, b) ==
  LET idx == SelectSeq([k \in 1..Len(links) |-> k], LAMBDA k : f[k] = b)
  IN [j \in 1..Len(idx) |-> links[idx[j]]]
Annotates(entry, link) ==
  \/ entry = link
  \/ /\ Len(entry) > Len(link) + Len(ErrorInfix)
     /\ SubSeq(entry, 1, Len(link)) = link
     /\ StartsAt(entry, ErrorInfix, Len(link) + 1)
C10_LinkPartition ==
  \A r \in RunIds :
    run[r].pc = "w_final" =>
      LET links == [k \in 1..Len(run[r].qr_codes) |-> run[r].qr_codes[k].data]
          valid == run[r].valid_links
          invalid == run[r].invalid_links
      IN /\ Len(valid) + Len(invalid) = Len(links)
         /\ run[r].gets = links
         /\ \E f \in [1..Len(links) -> BOOLEAN] :
              /\ Picks(links, f, TRUE) = valid
              /\ Len(Picks(links, f, FALSE)) = Len(invalid)
              /\ \A j \in 1..Len(invalid) :
                   Annotates(invalid[j], Picks(links, f, FALSE)[j])

C10_Witness ==
  \E r \in RunIds :
    /\ run[r].pc = "w_final"
    /\ Len(run[r].qr_codes) = 2
    /\ Len(run[r].valid_links) = 1
    /\ run[r].valid_links[1] = run[r].qr_codes[2].data
    /\ Len(run[r].invalid_links) = 1
    /\ run[r].invalid_links[1] # run[r].qr_codes[1].data
    /\ Annotates(run[r].invalid_links[1], run[r].qr_codes[1].data)


\* C11: check_qr_links puts a payload in the valid list exactly when its
\* fetch returned and the lower-cased invoice number occurs in the lower-cased
\* plain text of the response; every other payload, a failed fetch included,
\* is in the invalid list.
FetchedValid(rn, k) ==
  /\ rn.fetched[k].kind = "ok"
  /\ Contains(Lower(GetText(rn.fetched[k].html)),
              Lower(rn.invoice_fields["Invoice Number"]))
C11_ValidIffFound ==
  \A r \in RunIds :
    run[r].pc = "w_final" =>
      LET links == [k \in 1..Len(run[r].qr_codes) |-> run[r].qr_codes[k].data]
          f == [k \in 1..Len(links) |-> FetchedValid(run[r], k)]
      IN /\ run[r].valid_links = Picks(links, f, TRUE)
         /\ Len(run[r].invalid_links) = Len(Picks(links, f, FALSE))
         /\ \A j \in 1..Len(run[r].invalid_links) :
              Annotates(run[r].invalid_links[j], Picks(links, f, FALSE)[j])

C11_Witness ==
  \E r \in RunIds :
    /\ run[r].pc = "w_final"
    /\ Len(run[r].qr_codes) = 2
    /\ run[r].fetched[1].kind = "ok" /\ run[r].fetched[2].kind = "ok"
    /\ run[r].valid_links = <<run[r].qr_codes[1].data>>
    /\ run[r].invalid_links = <<run[r].qr_codes[2].data>>
    /\ run[r].invoice_fields["Invoice Number"] # NotFound


\* C12: the mapping extract_invoice_fields returns has every declared key,
\* and each value is the sentinel "Not found" or a non-empty matched string.
DeclaredKeys ==
  {"Invoice Number", "Currency", "Internal Data", "Receipt Signature",
   "SCU ID", "CU INVOICE NO."}
C12_Original ==
  \A r \in RunIds :
    run[r].pc = "w_final" =>
      /\ DOMAIN run[r].invoice_fields = DeclaredKeys
      /\ \A k \in DeclaredKeys : run[r].invoice_fields[k] # <<>>


\* C13: an accepted store write changes one item only, the one under the
\* run's composite key: it sets the attributes it names and a fresh
\* last_updated, keeps every other attribute of the item, and leaves the
\* items of the other keys as they were; a rejected write changes nothing.
FinalNames ==
  {"status", "qr_codes", "ocr_results", "ocr_summary", "validation_score",
   "validation_errors", "processed_date", "invoice_fields",
   "validated_qr_links", "invalid_qr_links", "fileName", "fileType",
   "fileSize", "s3Key", "s3Url", "uploadDate", "metadata"}
Mentions(w) ==
  CASE w.kind = "progress" ->
         {"current_step"} \cup (IF w.status = "" THEN {} ELSE {"status"})
    [] w.kind = "failure" -> {"status", "error", "processed_date"}
    [] OTHER -> FinalNames
C13_MergeOnOneIdentity ==
  [][\A r \in RunIds :
       writes'[r] # writes[r] =>
         LET w == writes'[r][Len(writes'[r])]
             key == <<run'[r].fileId.v, run'[r].uploadedBy.v>>
             old == store[key]
             new == store'[key]
         IN IF ~w.ok THEN store' = store
            ELSE /\ \A k \in Keys \ {key} : store'[k] = store[k]
                 /\ \A f \in DOMAIN old \ (Mentions(w) \cup {"last_updated"}) :
                      f \in DOMAIN new /\ new[f] = old[f]
                 /\ DOMAIN new \subseteq
                      DOMAIN old \cup Mentions(w)
                        \cup {"last_updated", "fileId", "uploadedBy"}
                 /\ new["fileId"] = Str(key[1])
                 /\ new["uploadedBy"] = Str(key[2])
                 /\ new["last_updated"].t = "time"
                 /\ new["last_updated"] # Attr(old, "last_updated")
                 /\ w.status # "" => new["status"] = Str(w.status)
                 /\ w.step # "" => new["current_step"] = Str(w.step)
                 /\ w.kind = "failure" =>
                      new["error"] = Str(run[r].err)
                 /\ w.kind = "final" =>
                      new["validation_score"] = IntV(run[r].score)]_vars

C13_Witness ==
  /\ Attr(store[<<"f1", "u1">>], "status") = Str("completed")
  /\ Attr(store[<<"f1", "u1">>], "current_step") = Str("validating")
  /\ Attr(store[<<"f1", "u1">>], "fileName") = Str("a.pdf")
  /\ Attr(store[<<"f2", "system">>], "status") = Str("failed")
  /\ "fileName" \notin DOMAIN store[<<"f2", "system">>]


\* C14: in the mapping a final write hands to the store, no dict at any depth
\* has a key whose value is null or an empty string, and no list at any depth
\* has a null or empty-string element.
IsEmptyStr(x) == (x.t = "str" /\ x.v = "") \/ (x.t = "txt" /\ x.v = <<>>)
RECURSIVE NoBlankEntries(_)
NoBlankEntries(obj) ==
  IF obj.t \in {"dict", "list"}
  THEN \A k \in DOMAIN obj.v :
         /\ ~IsNone(obj.v[k])
         /\ ~IsEmptyStr(obj.v[k])
         /\ NoBlankEntries(obj.v[k])
  ELSE TRUE
C14_Original ==
  \A r \in RunIds :
    run[r].pc = "w_final" =>
      NoBlankEntries(
        clean_for_dynamodb(Dct(FinalMapping(run[r], run[r].processed_date))))


\* C15: a well-formed request with status "pending" gets one background run
\* and the answer 200 carrying the record's identity and status "processing",
\* and the answer is there before the run's first store write.
C15_Original ==
  /\ \A i \in 1..Len(requests) :
       LET q == requests[i] IN
       (ValidRecord(q.body) /\ q.body["status"].v = "pending") =>
         /\ q.code = 200
         /\ run[i].pc # "idle"
         /\ Attr(q.json.v, "fileId") = q.body["fileId"]
         /\ Attr(q.json.v, "status") = Str("processing")
  /\ \A r \in RunIds : writes[r] # <<>> => r <= Len(requests)


\* C16: a trigger request whose record lacks a required field, or whose
\* locator is empty, is answered 400 and starts no background run.
LacksRequired(body) == ~(RequiredFields \subseteq DOMAIN body)
EmptyLocator(body) ==
  \E k \in {"s3Key", "bucket", "key"} \cap DOMAIN body : body[k] = Str("")
C16_Original ==
  \A i \in 1..Len(requests) :
    (LacksRequired(requests[i].body) \/ EmptyLocator(requests[i].body)) =>
      /\ requests[i].code = 400
      /\ run[i].pc = "idle"


\* C17: a pending record in the legacy shape (document_id, bucket, key,
\* file_type and none of the new fields) is accepted with 200, and its run
\* uses document_id as identity, "system" as uploader, key as locator and
\* file_type as declared type.
LegacyShape(body) ==
  /\ {"document_id", "bucket", "key", "file_type", "status"} \subseteq DOMAIN body
  /\ DOMAIN body \cap {"fileId", "uploadedBy", "fileName", "fileType", "s3Key"} = {}
C17_Original ==
  \A i \in 1..Len(requests) :
    LET body == requests[i].body IN
    (LegacyShape(body) /\ body["status"].v = "pending") =>
      /\ requests[i].code = 200
      /\ run[i].pc # "idle"
      /\ run[i].pc # "start" =>
           /\ run[i].fileId = body["document_id"]
           /\ run[i].uploadedBy = Str("system")
           /\ run[i].s3_key = body["key"]
           /\ run[i].file_type = body["file_type"]


\* C18: a status lookup returns the item stored under (fileId, uploadedBy),
\* uploadedBy being "system" when the caller gave none, exactly as stored;
\* it answers 404 when the key has no item; and it leaves the store as it was.
LookupKey == <<lookup.fileId,
               IF lookup.uploadedBy = NoneV THEN "system" ELSE lookup.uploadedBy.v>>
C18_LookupReadsStore ==
  [][lookup' # lookup =>
       /\ store' = store
       /\ writes' = writes
       /\ IF LookupKey' \in Keys /\ store[LookupKey'] # NoItem
          THEN lookup'.code = 200 /\ lookup'.json = Dct(store[LookupKey'])
          ELSE lookup'.code = 404]_vars
\* a lookup without uploader found the item a run wrote under "system", and
\* the run had already written more than its first snapshot
C18_Witness ==
  /\ lookup.code = 200
  /\ lookup.uploadedBy = NoneV
  /\ Attr(lookup.json.v, "status") = Str("failed")


\* C19: in one invocation over an event of well-formed records, the endpoint
\* is called once for each INSERT record with status "pending" and for no
\* other record; a call that fails is recorded as one error, is not made
\* again, and the records after it still get their calls.
WellFormed(record) ==
  /\ "eventName" \in DOMAIN record
  /\ \/ record.eventName # "INSERT"
     \/ LET item == record.dynamodb.NewImage IN
          /\ HasS(item, "status")
          /\ IF "fileId" \in DOMAIN item
             THEN HasS(item, "fileId") /\ HasS(item, "uploadedBy")
             ELSE /\ HasS(item, "id") /\ HasS(item, "bucket")
                  /\ HasS(item, "key") /\ HasS(item, "file_type")
Qualifies(record) ==
  /\ "eventName" \in DOMAIN record
  /\ record.eventName = "INSERT"
  /\ HasS(record.dynamodb.NewImage, "status")
  /\ record.dynamodb.NewImage["status"].S = "pending"
CallsFor(k) == {j \in 1..Len(handler.calls) : handler.calls[j].index = k}
FailedCalls == {j \in 1..Len(handler.calls) : handler.calls[j].raised}
C19_OneCallPerQualifying ==
  (handler.pc # "idle" /\ \A k \in 1..Len(handler.event) : WellFormed(handler.event[k])) =>
    /\ \A k \in 1..Len(handler.event) :
         Cardinality(CallsFor(k)) =
           IF k < handler.i /\ Qualifies(handler.event[k]) THEN 1 ELSE 0
    /\ \A j \in 1..(Len(handler.calls) - 1) :
         handler.calls[j].index < handler.calls[j + 1].index
    /\ Len(handler.errors) = Cardinality(FailedCalls)
    /\ \A n \in 1..Len(handler.errors) : handler.errors[n].kind = "call"
    /\ handler.processed_count = Len(handler.calls) - Cardinality(FailedCalls)
    /\ handler.pc \in {"return", "done"} => handler.i = Len(handler.event) + 1
\* two qualifying records, the first call failed and the second was made
C19_Witness ==
  /\ handler.pc = "done"
  /\ Len(handler.event) = 2
  /\ \A k \in 1..2 : Qualifies(handler.event[k])
  /\ Len(handler.calls) = 2
  /\ handler.calls[1].raised
  /\ ~handler.calls[2].raised
  /\ Len(handler.errors) = 1


\* C20: runs of different identities are independent under every
\* interleaving: whenever no other run is on the key of run r, the item
\* stored under that key is the initial item with the accepted writes of
\* run r applied in order, which is what run r alone leaves.
RECURSIVE Replay(_, _, _)
Replay(item, key, ws) ==
  IF ws = <<>> THEN item
  ELSE Replay(IF ws[1].ok THEN update_item(item, key[1], key[2], ws[1].values)
              ELSE item,
              key, Tail(ws))
KeyOf(r) == <<run[r].fileId.v, run[r].uploadedBy.v>>
Accepted(r) == \E j \in 1..Len(writes[r]) : writes[r][j].ok
C20_RunsIndependent ==
  \A r \in RunIds :
    (/\ Accepted(r)
     /\ \A s \in RunIds \ {r} : Accepted(s) => KeyOf(s) # KeyOf(r)) =>
      store[KeyOf(r)] = Replay(InitialStore[KeyOf(r)], KeyOf(r), writes[r])
\* both runs ended after accepted writes on two keys of the same file
C20_Witness ==
  /\ \A r \in RunIds : Accepted(r) /\ run[r].pc = "done"
  /\ KeyOf(1) # KeyOf(2)
  /\ KeyOf(1)[1] = KeyOf(2)[1]


\* C21: the temporary directory of a run is gone on every exit path: a run
\* that is in its except clause or has ended holds no open directory, so the
\* directory is released before the failure record is written.
C21_TmpdirReleased ==
  \A r \in RunIds :
    /\ run[r].pc \in {"except", "done", "raised"} => run[r].tmpdir # "open"
    /\ (\E j \in 1..Len(writes[r]) : writes[r][j].kind = "failure") =>
         run[r].tmpdir # "open"
    /\ run[r].tmpdir = "open" =>
         \A j \in 1..Len(writes[r]) : writes[r][j].kind = "progress"
\* a run that failed inside the with block, after the download, and wrote its
\* failure record
C21_Witness ==
  /\ run[1].pc = "done"
  /\ run[1].tmpdir = "released"
  /\ "download" \in run[1].did
  /\ run[1].err = "Unsupported file type"
  /\ writes[1][Len(writes[1])].kind = "failure"


\* C22: for a run over n rasterized pages, the result holds one OCRResult per
\* page, numbered 1..n in order; every QRCode has a page in 1..n and the list
\* is non-decreasing in page; an image gives n = 1. The same holds of the
\* lists handed to the final write.
PagesInOrder(ocr, n) ==
  /\ Len(ocr) = n
  /\ \A k \in 1..n : ocr[k].page = k
CodesInOrder(qr, n) ==
  /\ \A k \in 1..Len(qr) : qr[k].page \in 1..n
  /\ \A k \in 1..(Len(qr) - 1) : qr[k].page <= qr[k + 1].page
PageOf(entry) == entry.v["page"].v
C22_PageNumbers ==
  [][\A r \in RunIds :
       /\ run'[r].pc = "pages" =>
            /\ PagesInOrder(run'[r].ocr_results, run'[r].i)
            /\ CodesInOrder(run'[r].qr_codes, run'[r].i)
            /\ run'[r].i < Len(run'[r].image_paths)
       /\ run'[r].pc \in {"w_validating", "validate", "w_final"} =>
            /\ PagesInOrder(run'[r].ocr_results, Len(run'[r].image_paths))
            /\ CodesInOrder(run'[r].qr_codes, Len(run'[r].image_paths))
            /\ run'[r].file_type.v = "image" => Len(run'[r].image_paths) = 1
       /\ (writes'[r] # writes[r] /\ writes'[r][Len(writes'[r])].kind = "final") =>
            LET values == writes'[r][Len(writes'[r])].values
                n == Len(run[r].image_paths)
                ocr == values["ocr_results"].v
                qr == values["qr_codes"].v
            IN /\ Len(ocr) = n
               /\ \A k \in 1..n : PageOf(ocr[k]) = k
               /\ \A k \in 1..Len(qr) : PageOf(qr[k]) \in 1..n
               /\ \A k \in 1..(Len(qr) - 1) : PageOf(qr[k]) <= PageOf(qr[k + 1])]_vars
\* a two-page result with a code on each page, written
C22_Witness ==
  /\ run[1].pc = "done"
  /\ writes[1] # <<>>
  /\ LET w == writes[1][Len(writes[1])] IN
     /\ w.kind = "final" /\ w.ok
     /\ Len(w.values["ocr_results"].v) = 2
     /\ Len(w.values["qr_codes"].v) = 2
     /\ PageOf(w.values["qr_codes"].v[2]) = 2


\* C23: a pending submission for an identity that has a run in flight is
\* accepted and starts a second run; no step of one run changes the other
\* run, which goes on to its own terminal write; and each accepted write
\* sets the fields it names on the stored item and leaves the other fields
\* as the write before it left them.
RecordKey(record) ==
  <<IF Truthy(record.fileId) THEN record.fileId ELSE record.document_id,
    IF Truthy(record.uploadedBy) THEN record.uploadedBy ELSE Str("system")>>
InFlight(r) == run[r].pc \notin {"idle", "done", "raised"}
Resubmitted(i) ==
  /\ Len(requests) = i - 1
  /\ Len(requests') = i
  /\ ValidRecord(requests'[i].body)
  /\ requests'[i].body["status"] = Str("pending")
  /\ \E j \in RunIds \ {i} :
       /\ InFlight(j)
       /\ RecordKey(run[j].record) = RecordKey(DynamoDBRecord(requests'[i].body))
C23_ResubmissionRuns ==
  /\ [][\A i \in RunIds :
          Resubmitted(i) =>
            /\ requests'[i].code = 200
            /\ run'[i].pc = "start"
            /\ \A j \in RunIds \ {i} : run'[j] = run[j]
            /\ store' = store /\ writes' = writes]_vars
  /\ [][\A r \in RunIds :
          run'[r] # run[r] =>
            \A s \in RunIds \ {r} : run'[s] = run[s] /\ writes'[s] = writes[s]]_vars
  /\ [][\A r \in RunIds :
          writes'[r] # writes[r] =>
            LET w == writes'[r][Len(writes'[r])]
                key == <<run'[r].fileId.v, run'[r].uploadedBy.v>>
                old == store[key]
            IN IF ~w.ok THEN store' = store
               ELSE /\ DOMAIN store'[key] =
                         DOMAIN old \cup DOMAIN w.values \cup {"fileId", "uploadedBy"}
                    /\ \A f \in DOMAIN w.values : store'[key][f] = w.values[f]
                    /\ \A f \in DOMAIN old \ DOMAIN w.values :
                         store'[key][f] = old[f]]_vars
  /\ \A r \in RunIds :
       (run[r].pc = "start") ~> (run[r].pc = "done" /\ IsTerminal(LastWrite(r)))
\* two runs of one identity have ended, the first one writing last: the item
\* carries the step and the stamp of the first run's writes
C23_Witness ==
  /\ \A r \in RunIds : run[r].pc = "done" /\ writes[r] # <<>>
  /\ RecordKey(run[1].record) = RecordKey(run[2].record)
  /\ LastWrite(1).kind = "final" /\ LastWrite(2).kind = "final"
  /\ ItemOf(1)["last_updated"] = LastWrite(1).values["last_updated"]
  /\ ItemOf(1)["last_updated"].v[1] = 1


\* C24: labeled multi-line extraction gives the text after the label line's
\* first colon followed by every later line, as written and with nothing
\* inserted, up to the first blank line, separator line or line ending in a
\* colon, however many lines that is; and the sentinel only when no line
\* starts with the label. (The fragments are compared with their outer
\* whitespace trimmed, which is the weakest reading of "verbatim".)
RECURSIVE Fragments(_, _, _, _, _)
Fragments(lines, idx, label, found, values) ==
  IF idx > Len(lines) THEN values
  ELSE IF ~found
  THEN IF StartsAt(Strip(lines[idx]), label, 1)
       THEN Fragments(lines, idx + 1, label, TRUE,
                      Append(values, AfterColon(lines[idx])))
       ELSE Fragments(lines, idx + 1, label, FALSE, values)
  ELSE IF StopsValue(Strip(lines[idx])) THEN values
  ELSE Fragments(lines, idx + 1, label, TRUE, Append(values, Strip(lines[idx])))
LabeledValue(label, text) ==
  LET values == Fragments(SplitLines(text), 1, label, FALSE, <<>>)
  IN IF values # <<>> THEN Join(values, <<>>) ELSE NotFound
MultilineLabels ==
  [k \in {"Internal Data", "Receipt Signature", "SCU ID", "CU INVOICE NO."} |->
     CASE k = "Internal Data" -> InternalData
       [] k = "Receipt Signature" -> ReceiptSignature
       [] k = "SCU ID" -> ScuId
       [] OTHER -> CuInvoiceNo]
C24_Original ==
  \A r \in RunIds :
    run[r].pc = "w_final" =>
      \A k \in DOMAIN MultilineLabels :
        run[r].invoice_fields[k] = LabeledValue(MultilineLabels[k], run[r].all_text)


\* C25: a record that cannot be normalized affects only itself: when the
\* invocation has returned, every qualifying record of the event, also one
\* that comes after such a record, has had its one call.
C25_Original ==
  handler.pc = "done" =>
    \A k \in 1..Len(handler.event) :
      (WellFormed(handler.event[k]) /\ Qualifies(handler.event[k])) =>
        Cardinality(CallsFor(k)) = 1


\* C26: for a new-schema stream record whose fileType is a MIME type
\* ("application/pdf"), the record sent to the endpoint carries the part after
\* the slash ("pdf") as declared type, and so does the run it starts.
MimeTyped(record) ==
  /\ "fileId" \in DOMAIN record.dynamodb.NewImage
  /\ HasS(record.dynamodb.NewImage, "fileType")
  /\ record.dynamodb.NewImage["fileType"].S = "application/pdf"
C26_Original ==
  \A j \in 1..Len(handler.calls) :
    MimeTyped(handler.event[handler.calls[j].index]) =>
      /\ handler.calls[j].record["fileType"] = Str("pdf")
      /\ \A i \in 1..Len(requests) :
           (requests[i].body = handler.calls[j].record /\ i \in RunIds
            /\ requests[i].code = 200) =>
             run[i].record.fileType = Str("pdf")

\* C27: lambda_handler never raises. Whatever the records of the event hold and
\* whatever the endpoint answers, the invocation is never left by an exception
\* and can always take its next step, and the value it returns has statusCode
\* 200, total_records equal to the number of records of the event and
\* processed_documents equal to the number of trigger calls that succeeded.
SucceededCalls == {j \in 1..Len(handler.calls) : ~handler.calls[j].raised}
C27_HandlerReturns ==
  /\ handler.pc \in {"idle", "loop", "return", "done"}
  /\ handler.pc \in {"loop", "return"} =>
       ENABLED (Return \/ \E net \in {"up", "down"} : Iterate(net))
  /\ handler.pc = "done" =>
       /\ handler.result.statusCode = 200
       /\ handler.result.body.total_records = Len(handler.event)
       /\ handler.result.body.processed_documents = Cardinality(SucceededCalls)
C27_Witness ==
  /\ handler.pc = "done"
  /\ Len(handler.event) = 2
  /\ \E k \in 1..2 : ~WellFormed(handler.event[k])
  /\ \E j \in 1..Len(handler.errors) : handler.errors[j].kind = "event"
  /\ handler.result.body.processed_documents = 1

\* C28: when the parsed invoice number is the not-found sentinel, the link
\* check of a run classifies no payload as valid, whatever the fetched pages
\* hold.
C28_Original ==
  \A r \in RunIds :
    ("links" \in run[r].did /\ run[r].invoice_fields["Invoice Number"] = NotFound)
      => run[r].valid_links = <<>>

\* C29: once the runs submitted for an identity have ended, every write having
\* been accepted, the stored item is self-consistent: with status "completed"
\* it has no error field, and with status "failed" it has no validation_score
\* of 50 or more.
AllAccepted == \A r \in RunIds : \A k \in 1..Len(writes[r]) : writes[r][k].ok
SelfConsistent(item) ==
  /\ Attr(item, "status") = Str("completed") => "error" \notin DOMAIN item
  /\ Attr(item, "status") = Str("failed") =>
       ~(Attr(item, "validation_score").t = "int"
         /\ Attr(item, "validation_score").v >= PassMark)
C29_Original ==
  (AllAccepted /\ \A r \in RunIds : run[r].pc \in {"idle", "done", "raised"})
    => \A k \in Keys : store[k] # NoItem => SelfConsistent(store[k])

\* C30: a run whose final-result write is rejected goes on to the except
\* clause with the write error, and the next write it makes is the failure
\* record carrying that error: accepted, it leaves the stored status "failed"
\* with the write error as message; rejected, it leaves the item as it was, at
\* status "processing". Once the run has ended the item is at "processing"
\* exactly when the failure write was rejected too.
FinalRejected(r) ==
  /\ Len(writes[r]) > 0
  /\ LastWrite(r).kind = "final"
  /\ ~LastWrite(r).ok
HadFinalRejected(r) ==
  \E k \in 1..Len(writes[r]) : writes[r][k].kind = "final" /\ ~writes[r][k].ok
C30_FailureRecordAttempted ==
  /\ [](\A r \in RunIds :
          FinalRejected(r) =>
            /\ run[r].pc = "except"
            /\ run[r].err = StoreError
            /\ Attr(ItemOf(r), "status") = Str("processing"))
  /\ [][\A r \in RunIds :
          (FinalRejected(r) /\ writes'[r] # writes[r]) =>
            /\ LastWrite(r)'.kind = "failure"
            /\ LastWrite(r)'.values.error = Str(StoreError)
            /\ IF LastWrite(r)'.ok
               THEN /\ Attr(ItemOf(r)', "status") = Str("failed")
                    /\ Attr(ItemOf(r)', "error") = Str(StoreError)
               ELSE store' = store]_vars
  /\ [](\A r \in RunIds :
          (HadFinalRejected(r) /\ Ended_(r)) =>
            /\ LastWrite(r).kind = "failure"
            /\ Attr(ItemOf(r), "status") \in {Str("processing"), Str("failed")}
            /\ Attr(ItemOf(r), "status") = Str("processing") <=> ~LastWrite(r).ok)
C30_Witness ==
  \E r \in RunIds :
    /\ HadFinalRejected(r)
    /\ Ended_(r)
    /\ LastWrite(r).kind = "failure" /\ LastWrite(r).ok
    /\ Attr(ItemOf(r), "status") = Str("failed")
    /\ Attr(ItemOf(r), "error") = Str(StoreError)

\* C31: clean_for_dynamodb is idempotent. The mapping a run hands to its final
\* write is a cleaned value (mappings, lists, strings, numbers); cleaning it
\* once more gives the same value.
CleanedOf(w) == Dct([f \in DOMAIN w.values \ {"last_updated"} |-> w.values[f]])
C31_Original ==
  \A r \in RunIds : \A k \in 1..Len(writes[r]) :
    writes[r][k].kind = "final" =>
      clean_for_dynamodb(CleanedOf(writes[r][k])) = CleanedOf(writes[r][k])
====
